---- MODULE Spec2Model ----
(***************************************************************************)
(* Match synchronisation and action gating of the card-game client.        *)
(*                                                                         *)
(* App.tsx holds the store (currentMatch, currentGameState, busy, error,   *)
(* the session) and the handlers that talk to the server through           *)
(* withReauth; GameRoomScreen holds the gate (canSubmitAction,             *)
(* resolveGlobalActionBlockReason) and the click handlers that decide      *)
(* whether a handler of App.tsx is called at all.  The server is the       *)
(* environment: it owns the authoritative match `srv`, answers requests    *)
(* and pushes envelopes.                                                   *)
(***************************************************************************)
EXTENDS Integers, Sequences, FiniteSets, TLC

\* ------------------------------------------------------------------ bounds
MaxTurn == 2          \* the server plays turns 1..MaxTurn
MaxPending == 1       \* pending decisions and interactions the server keeps open together
MaxIds == 2           \* decision / interaction ids the server hands out
MaxLogins == 2        \* tokens the server issues
MaxCalls == 5         \* guarded calls that can be outstanding together
MaxInvocations == 2   \* handler invocations that can be outstanding together
MaxStray == 1         \* requests nobody awaits any more that a starting handler tolerates

\* ------------------------------------------------------------------ values
Null == "null"
Players == {"P1", "P2"}
MatchId == "m1"
NextMatchId == "m2"      \* the id of a second room
RoomCode == "ROOM"

Other(p) == CHOOSE q \in Players : q # p

\* The kinds of request a handler of App.tsx sends.
HandActionKinds == {"PLAY_TO_STAGE", "PLAY_SUPPORT", "BLOOM", "ATTACH_CHEER"}
OrdinaryKinds == HandActionKinds \cup {"ATTACK_ART", "DRAW_TURN", "TURN_CHEER", "MOVE_STAGE_HOLOMEM"}
GameKinds == OrdinaryKinds \cup {"END_TURN", "CONCEDE", "RESOLVE_DECISION"}
LobbyKinds == {"CREATE_ROOM", "JOIN_ROOM", "TOGGLE_READY", "START"}
HandlerKinds == GameKinds \cup LobbyKinds
FetchKinds == {"GET_MATCH", "GET_STATE"}

InteractionTypes == {"TURN_START", "LOOK_TOP_DECK", "SEND_CHEER"}
Candidates == {"c1", "c2"}

\* A pending decision as the snapshot carries it (api: PendingDecision).
DecisionShapes == {[minSelect |-> 0, maxSelect |-> 1], [minSelect |-> 1, maxSelect |-> 2]}
NoDecision == [decisionId |-> 0, minSelect |-> 0, maxSelect |-> 0]
Decision(id, shape) ==
    [decisionId |-> id, minSelect |-> shape.minSelect, maxSelect |-> shape.maxSelect]
\* A pending interaction (api: PendingInteraction); only SEND_CHEER selects cards.
NoInteraction == [interactionId |-> 0, interactionType |-> Null, minSelect |-> 0, maxSelect |-> 0]
Interaction(id, type) ==
    [interactionId |-> id, interactionType |-> type,
     minSelect |-> IF type = "SEND_CHEER" THEN 1 ELSE 0,
     maxSelect |-> IF type = "SEND_CHEER" THEN 1 ELSE 0]

\* What the card catalog (cardInfoById) says of a card, as far as BLOOM reads it;
\* a card the catalog does not know reads as '' by `?? ''`.
CardInfo(name, levelType) == [name |-> name, levelType |-> levelType]
NoCardInfo == CardInfo("", "")

\* The local player's side of the board and hand, as far as the handlers read it:
\* the cards in CENTER / COLLAB / BACK, the cheer deck, the kinds of card in hand,
\* the catalog entries of the cards on the field (myHolomems) and of the BLOOM card
\* in hand.
Boards ==
    { [center |-> 0, collab |-> 0, back |-> 0, cheerDeck |-> 1,
       units |-> {}, bloomCard |-> NoCardInfo,
       hand |-> {"PLAY_TO_STAGE", "PLAY_SUPPORT"}],
      [center |-> 1, collab |-> 0, back |-> 1, cheerDeck |-> 1,
       units |-> {CardInfo("X", "DEBUT"), CardInfo("Y", "DEBUT")},
       bloomCard |-> CardInfo("X", "FIRST"),
       hand |-> HandActionKinds],
      [center |-> 1, collab |-> 1, back |-> 5, cheerDeck |-> 0,
       units |-> {CardInfo("X", "DEBUT"), CardInfo("Y", "FIRST")},
       bloomCard |-> CardInfo("X", "SECOND"),
       hand |-> HandActionKinds] }

\* Errors a request can end with.  "401" is the authorization failure.
Unauthorized == "401"
Conflict == "409"
NetError == "net"
MockIdEmpty == "mock-id-empty"
LoginFailed == "login-failed"

VARIABLES
    \* --- server (environment)
    srv,            \* the authoritative match
    issued,         \* number of tokens issued so far
    expired,        \* tokens numbered <= expired are no longer accepted
    \* --- App.tsx
    authToken,      \* the stored credential: NoToken or [gen, user]
    currentUserId,
    authStatus,
    mockLineId,
    currentMatch,
    currentGameState,
    busy,
    error,
    route,
    calls,          \* the guarded calls (withReauth) that are outstanding
    inv,            \* the handler invocations that are outstanding
    socket,         \* the match id the open WebSocket belongs to, or Null
    wsStatus,       \* the channel-status indicator
    wsEvents,       \* the open / error / close events of the sockets not yet delivered
    timer,          \* the match id and status the running poll interval was set for
    \* --- GameRoomScreen: its useState cells, one field each
    screen

srvVars == <<srv, issued, expired>>
sessionVars == <<authToken, currentUserId, authStatus>>
vars == <<srv, issued, expired, authToken, currentUserId, authStatus, mockLineId,
          currentMatch, currentGameState, busy, error, route, calls, inv, socket, wsStatus, wsEvents, timer,
          screen>>

\* ------------------------------------------------------------------ the store's empty values
\* `null` for currentMatch / currentGameState, with the fields the optional chains
\* (`?.`, `?? []`, `?? 0`) of the readers give.
EmptyBoard ==
    [center |-> 0, collab |-> 0, back |-> 0, cheerDeck |-> 0, units |-> {},
     bloomCard |-> NoCardInfo, hand |-> {}]
NoMatchSummary ==
    [matchId |-> Null, status |-> Null, currentTurnPlayerId |-> Null, turnNumber |-> 0,
     host |-> Null, players |-> {}, ready |-> {}]
NoGameState ==
    [matchId |-> Null, status |-> Null, currentTurnPlayerId |-> Null, turnNumber |-> 0,
     players |-> {}, recentActions |-> {}, pendingDecisions |-> <<>>,
     pendingInteractions |-> <<>>, board |-> EmptyBoard]

\* ------------------------------------------------------------------ server
\* The match the server plays (`id` is Null before a room exists) and, in `old`,
\* what it still answers about the room the player was in before: a room that has
\* been left does not change any more.
NoMatch ==
    [id |-> Null, status |-> "NONE", host |-> Null, players |-> {}, ready |-> {},
     owner |-> Null, turn |-> 0, log |-> {}, pd |-> <<>>, pi |-> <<>>, nextId |-> 1,
     board |-> CHOOSE b \in Boards : b.back = 0,
     old |-> [match |-> NoMatchSummary, state |-> NoGameState]]

\* What GET /matches/{id} and every action answer (api: LobbyMatch).
MatchSummary(s) ==
    [matchId |-> s.id, status |-> s.status, currentTurnPlayerId |-> s.owner,
     turnNumber |-> s.turn, host |-> s.host, players |-> s.players, ready |-> s.ready]

\* What GET /matches/{id}/state answers (api: GameState).
GameSnapshot(s) ==
    [matchId |-> s.id, status |-> s.status, currentTurnPlayerId |-> s.owner,
     turnNumber |-> s.turn, players |-> s.players, recentActions |-> s.log,
     pendingDecisions |-> s.pd, pendingInteractions |-> s.pi, board |-> s.board]

NoToken == [gen |-> 0, user |-> Null]
Authorized(tok) == tok.gen > 0 /\ tok.gen > expired

\* The payload of a request: the match it is about, the room code of a join, the
\* flag of a ready toggle, the decision id and the number of selected cards of a
\* resolve-decision.
NoArg == [matchId |-> Null, code |-> "", flag |-> FALSE, decisionId |-> 0, selected |-> 0]

HasLogged(s, user, type) ==
    \E a \in s.log : a.userId = user /\ a.actionType = type /\ a.turnNumber = s.turn
HeadId(q, field) == IF q = <<>> THEN 0 ELSE Head(q)[field]

\* Whether the rules engine accepts request `fn` with payload `arg` from `actor`.
Legal(s, fn, arg, actor) ==
    CASE fn = "CREATE_ROOM" -> s.id # NextMatchId
      [] fn = "JOIN_ROOM" ->
            /\ s.id = MatchId /\ s.status = "WAITING"
            /\ actor \notin s.players /\ arg.code = RoomCode
      [] fn = "TOGGLE_READY" -> s.status \in {"WAITING", "READY"} /\ actor \in s.players
      [] fn = "START" -> s.status = "READY" /\ actor = s.host /\ s.ready = Players
      [] fn \in OrdinaryKinds ->
            /\ s.status = "STARTED" /\ actor = s.owner /\ s.pd = <<>> /\ s.pi = <<>>
            /\ fn = "DRAW_TURN" => ~HasLogged(s, actor, "DRAW_TURN")
            /\ fn = "TURN_CHEER" => ~HasLogged(s, actor, "TURN_CHEER")
      [] fn = "END_TURN" ->
            /\ s.status = "STARTED" /\ actor = s.owner /\ s.pd = <<>> /\ s.pi = <<>>
            /\ s.turn < MaxTurn
      [] fn = "CONCEDE" -> s.status = "STARTED" /\ actor \in s.players
      [] fn = "RESOLVE_DECISION" ->
            /\ s.status = "STARTED"
            /\ arg.decisionId > 0
            /\ \/ /\ HeadId(s.pd, "decisionId") = arg.decisionId
                  /\ arg.selected >= Head(s.pd).minSelect /\ arg.selected <= Head(s.pd).maxSelect
               \/ /\ HeadId(s.pi, "interactionId") = arg.decisionId
                  /\ arg.selected >= Head(s.pi).minSelect /\ arg.selected <= Head(s.pi).maxSelect
      [] OTHER -> FALSE

LogEntry(s, actor, type) == [userId |-> actor, actionType |-> type, turnNumber |-> s.turn]

\* The match after the rules engine has accepted the request.
Apply(s, fn, arg, actor) ==
    CASE fn = "CREATE_ROOM" ->
            IF s.id = Null
            THEN [s EXCEPT !.id = MatchId, !.status = "WAITING", !.host = actor,
                           !.players = {actor}]
            ELSE [NoMatch EXCEPT !.id = NextMatchId, !.status = "WAITING", !.host = actor,
                                 !.players = {actor}, !.nextId = s.nextId,
                                 !.old = [match |-> MatchSummary(s),
                                          state |-> GameSnapshot(s)]]
      [] fn = "JOIN_ROOM" -> [s EXCEPT !.status = "READY", !.players = @ \cup {actor}]
      [] fn = "TOGGLE_READY" ->
            [s EXCEPT !.ready = IF arg.flag THEN @ \cup {actor} ELSE @ \ {actor}]
      [] fn = "START" -> [s EXCEPT !.status = "STARTED", !.owner = s.host, !.turn = 1]
      [] fn \in {"DRAW_TURN", "TURN_CHEER"} ->
            [s EXCEPT !.log = @ \cup {LogEntry(s, actor, fn)}]
      [] fn = "END_TURN" -> [s EXCEPT !.owner = Other(s.owner), !.turn = @ + 1]
      [] fn = "CONCEDE" -> [s EXCEPT !.status = "FINISHED", !.pd = <<>>, !.pi = <<>>]
      [] fn = "RESOLVE_DECISION" ->
            IF HeadId(s.pd, "decisionId") = arg.decisionId
            THEN [s EXCEPT !.pd = Tail(@)] ELSE [s EXCEPT !.pi = Tail(@)]
      [] OTHER -> s

\* ------------------------------------------------------------------ GameRoomScreen: derived values
\* GameRoomRoute renders GameRoomScreen only with a current match.
Mounted(m, r) == r = "game" /\ m # NoMatchSummary
gameRoomMounted == Mounted(currentMatch, route)

NoHandActionDraft == [kind |-> Null, target |-> FALSE]
NoStageMoveDraft == [targetZone |-> Null, movable |-> FALSE, blockedReason |-> Null]
InitialScreen ==
    [pendingHandAction |-> NoHandActionDraft, pendingStageMove |-> NoStageMoveDraft,
     showConcedeConfirm |-> FALSE, infoModalMessage |-> Null,
     selectedDecisionCardInstanceIds |-> {}, selectedInteractionCardInstanceIds |-> {},
     selectedInteractionPlacement |-> Null]

isMyTurn == currentUserId # Null /\ currentMatch.currentTurnPlayerId = currentUserId

LocalPlayer == "P1"
\* myState: the snapshot's player entry of the signed-in user, with `?? []` / `?? 0`
\* for a missing entry.
myState ==
    IF currentUserId = LocalPlayer /\ LocalPlayer \in currentGameState.players
    THEN currentGameState.board ELSE EmptyBoard
myHolomems == myState.center + myState.collab + myState.back
myCenterHolomems == myState.center
myCollabHolomems == myState.collab
myBackHolomems == myState.back

ActiveDecisionOf(g) ==
    IF g.pendingDecisions = <<>> THEN NoDecision ELSE Head(g.pendingDecisions)
ActiveInteractionOf(g) ==
    IF g.pendingInteractions = <<>> THEN NoInteraction ELSE Head(g.pendingInteractions)
pendingDecisions == currentGameState.pendingDecisions
pendingInteractions == currentGameState.pendingInteractions
activePendingDecision == ActiveDecisionOf(currentGameState)
activePendingInteraction == ActiveInteractionOf(currentGameState)

\* canSubmitAction without the pending-decision conjunct.
canSubmitAction_NoDecisionCheck ==
    /\ ~busy
    /\ isMyTurn
    /\ currentGameState.status = "STARTED"
    /\ activePendingInteraction = NoInteraction

canSubmitAction ==
    /\ ~busy
    /\ isMyTurn
    /\ currentGameState.status = "STARTED"
    /\ activePendingDecision = NoDecision
    /\ activePendingInteraction = NoInteraction

recentActions == currentGameState.recentActions
\* myTurnActions without the turn-number test of the filter.
myTurnActions_AnyTurn ==
    IF currentUserId = Null \/ currentGameState.turnNumber = 0
    THEN {}
    ELSE {a \in recentActions : a.userId = currentUserId}

myTurnActions ==
    IF currentUserId = Null \/ currentGameState.turnNumber = 0
    THEN {}
    ELSE {a \in recentActions :
            a.userId = currentUserId /\ a.turnNumber = currentGameState.turnNumber}
hasUsedTurnDraw == \E a \in myTurnActions : a.actionType = "DRAW_TURN"
hasUsedTurnCheer == \E a \in myTurnActions : a.actionType = "TURN_CHEER"

BlockBusy == "busy"
BlockNotYourTurn == "not-your-turn"
BlockNotStarted == "not-started"
BlockDecisionPending == "decision-pending"
BlockInteractionPending == "interaction-pending"

\* resolveGlobalActionBlockReason with the pending-decision test moved first.
resolveGlobalActionBlockReason_DecisionFirst ==
    IF activePendingDecision # NoDecision THEN BlockDecisionPending
    ELSE IF busy THEN BlockBusy
    ELSE IF ~isMyTurn THEN BlockNotYourTurn
    ELSE IF currentGameState.status # "STARTED" THEN BlockNotStarted
    ELSE IF activePendingInteraction # NoInteraction THEN BlockInteractionPending
    ELSE Null

resolveGlobalActionBlockReason ==
    IF busy THEN BlockBusy
    ELSE IF ~isMyTurn THEN BlockNotYourTurn
    ELSE IF currentGameState.status # "STARTED" THEN BlockNotStarted
    ELSE IF activePendingDecision # NoDecision THEN BlockDecisionPending
    ELSE IF activePendingInteraction # NoInteraction THEN BlockInteractionPending
    ELSE Null

canPerformTurnCheer == myState.cheerDeck > 0 /\ myHolomems > 0

\* String.prototype.trim on the names of the catalog: " X" is "X" with a blank
\* before it.
trim(name) == IF name = " X" THEN "X" ELSE name

levelRank(level) ==
    CASE level = "DEBUT" -> 0
      [] level = "FIRST" -> 1
      [] level = "SECOND" -> 2
      [] OTHER -> 0 - 1

\* resolveDefaultHandAction of a MEMBER card.
resolveDefaultHandAction(info) ==
    IF info.levelType \in {"FIRST", "SECOND", "BUZZ"} THEN "BLOOM"
    ELSE IF info.levelType \in {"DEBUT", "SPOT"} THEN "PLAY_TO_STAGE"
    ELSE Null

BloomNoLevel == "bloom-card-without-level"
TargetNoLevel == "target-without-level"
TargetSpot == "target-is-spot"
NameDiffers == "name-differs"
RankDiffers == "rank-not-next"

\* resolveBloomTargetOptions(bloomCard): for each unit of myHolomems the reason
\* that makes it no target, Null for a selectable one.
resolveBloomTargetOptions(bloomCard) ==
    LET bloomName == trim(bloomCard.name)
        bloomLevel == bloomCard.levelType
        bloomRank == levelRank(bloomLevel)
    IN  [target \in myState.units |->
           LET targetName == trim(target.name)
               targetLevel == target.levelType
               targetRank == levelRank(targetLevel)
           IN  IF bloomName = "" \/ bloomLevel = "" \/ bloomRank <= 0 THEN BloomNoLevel
               ELSE IF targetName = "" \/ targetLevel = "" \/ targetRank < 0 THEN TargetNoLevel
               ELSE IF targetLevel = "SPOT" THEN TargetSpot
               ELSE IF targetName # bloomName THEN NameDiffers
               ELSE IF targetRank + 1 # bloomRank THEN RankDiffers
               ELSE Null]

\* resolveHandActionAvailability(card).selectable, for a hand card whose default
\* action is `kind`.
BackMax == 5
\* reasonSummary of resolveHandActionAvailability (BLOOM branch): the reasons of
\* the options, each once (Array.from(new Set(...)) of the reasons that are set).
bloomReasonSummary ==
    {resolveBloomTargetOptions(myState.bloomCard)[target] : target \in myState.units} \ {Null}

HandActionSelectable(kind) ==
    /\ resolveGlobalActionBlockReason = Null
    /\ kind = "PLAY_TO_STAGE" => myBackHolomems < BackMax
    /\ kind = "ATTACH_CHEER" => myHolomems > 0
    /\ kind = "BLOOM" =>
          \E target \in myState.units : resolveBloomTargetOptions(myState.bloomCard)[target] = Null

\* canResolveDecision with minSelect itself as the lower bound.
canResolveDecision_MinSelectOnly ==
    /\ activePendingDecision # NoDecision
    /\ ~busy
    /\ LET n == Cardinality(screen.selectedDecisionCardInstanceIds)
       IN  n >= activePendingDecision.minSelect /\ n <= activePendingDecision.maxSelect

canResolveDecision ==
    /\ activePendingDecision # NoDecision
    /\ ~busy
    /\ LET n == Cardinality(screen.selectedDecisionCardInstanceIds)
           lo == IF activePendingDecision.minSelect > 1 THEN activePendingDecision.minSelect ELSE 1
       IN  n >= lo /\ n <= activePendingDecision.maxSelect

canConfirmInteraction ==
    /\ activePendingInteraction # NoInteraction
    /\ ~busy
    /\ CASE activePendingInteraction.interactionType = "TURN_START" -> TRUE
         [] activePendingInteraction.interactionType = "DRAW_REVEAL" -> TRUE
         [] activePendingInteraction.interactionType = "LOOK_TOP_DECK" ->
                screen.selectedInteractionPlacement # Null
         [] activePendingInteraction.interactionType = "SEND_CHEER" ->
                LET n == Cardinality(screen.selectedInteractionCardInstanceIds)
                    lo == IF activePendingInteraction.minSelect > 1
                          THEN activePendingInteraction.minSelect ELSE 1
                IN  n >= lo /\ n <= activePendingInteraction.maxSelect
         [] OTHER -> FALSE

\* ------------------------------------------------------------------ messages
\* The error slot and the info modal hold one text or null.  Texts are kept apart
\* by what they say, not by their wording.
RoomCodeMissing == "room-code-missing"
SignInFailed == "sign-in-failed"
FallbackText == "fallback"
DrawUsed == "draw-used"
CheerUsed == "cheer-used"
\* `回合尚未完成：${missing.join('、')}。…`, missing listing 抽卡 ("draw") and / or
\* 發送吶喊 ("cheer") in that order.
TurnIncomplete(missing) ==
    CASE missing = <<"draw">> -> "turn-incomplete: draw"
      [] missing = <<"cheer">> -> "turn-incomplete: cheer"
      [] OTHER -> "turn-incomplete: draw, cheer"
StageOccupied == "center-and-collab-occupied"
NotSelectable == "not-selectable"

\* getApiErrorMessage(err, fallback): the message of an axios error comes from the
\* response (or err.message), anything else gives the fallback.
getApiErrorMessage(err) == IF err = MockIdEmpty THEN FallbackText ELSE err

\* setError(...) of the catch block of handler `kind`.
CatchMessage(err, kind) ==
    IF kind \in {"CREATE_ROOM", "TOGGLE_READY"} THEN FallbackText
    ELSE getApiErrorMessage(err)

\* ------------------------------------------------------------------ guarded calls and handler invocations
NoAwait == [inv |-> 0, role |-> Null]
NoResp == [ok |-> FALSE, err |-> Null, match |-> NoMatchSummary, state |-> NoGameState]
OkMatch(m) == [ok |-> TRUE, err |-> Null, match |-> m, state |-> NoGameState]
OkState(g) == [ok |-> TRUE, err |-> Null, match |-> NoMatchSummary, state |-> g]
Failure(e) == [ok |-> FALSE, err |-> e, match |-> NoMatchSummary, state |-> NoGameState]

FreeCall ==
    [st |-> "free", fn |-> Null, arg |-> NoArg, tok |-> NoToken, retry |-> FALSE,
     resp |-> NoResp, trace |-> <<>>, await |-> NoAwait]
IdleInvocation == [kind |-> Null, stage |-> "idle"]

FreeCalls(cs) == {c \in 1..MaxCalls : cs[c].st = "free"}
FirstFree(cs) == CHOOSE c \in FreeCalls(cs) : \A d \in FreeCalls(cs) : c <= d
Put(cs, rec) == [cs EXCEPT ![FirstFree(cs)] = rec]
Release(cs, c) == [cs EXCEPT ![c] = FreeCall]
\* The calls whose result nobody takes: the request Promise.all no longer waits
\* for, the poll of a cleared interval.
StrayCalls == {c \in 1..MaxCalls : calls[c].st # "free" /\ calls[c].await.role \in {Null, "cancelled"}}
FreeInvocations == {i \in 1..MaxInvocations : inv[i].stage = "idle"}
FirstFreeInvocation == CHOOSE i \in FreeInvocations : \A j \in FreeInvocations : i <= j

\* withReauth(fn): the first `await fn()`; the request carries the stored token.
withReauth(fn, arg, aw, tok) ==
    [st |-> "sent", fn |-> fn, arg |-> arg, tok |-> tok, retry |-> TRUE,
     resp |-> NoResp, trace |-> <<"fn">>, await |-> aw]

\* ------------------------------------------------------------------ effects that follow a store update
\* The auto-navigation effect of App.tsx.
AutoNavigate(m, r) ==
    IF m.status = "STARTED" THEN "game"
    ELSE IF m = NoMatchSummary /\ r = "game" THEN "lobby"
    ELSE r

\* The effects of GameRoomScreen after a render with match m, snapshot g, route r
\* and error slot e, its state cells being scr before the effects run: an unmounted
\* screen loses its cells; a new head decision / interaction id clears the
\* selection; a new error message is shown in the info modal.
Render(m, g, r, e, scr) ==
    IF ~Mounted(m, r) THEN InitialScreen
    ELSE LET base == IF gameRoomMounted THEN scr ELSE InitialScreen
             newDecision ==
                ~gameRoomMounted
                \/ ActiveDecisionOf(g).decisionId # activePendingDecision.decisionId
             newInteraction ==
                ~gameRoomMounted
                \/ ActiveInteractionOf(g).interactionId # activePendingInteraction.interactionId
             newError == e # Null /\ (~gameRoomMounted \/ e # error)
         IN [base EXCEPT
               !.selectedDecisionCardInstanceIds = IF newDecision THEN {} ELSE @,
               !.selectedInteractionCardInstanceIds = IF newInteraction THEN {} ELSE @,
               !.selectedInteractionPlacement = IF newInteraction THEN Null ELSE @,
               !.infoModalMessage = IF newError THEN e ELSE @]

\* The WebSocket effect (deps: currentMatch?.matchId): one socket, of the stored
\* match; the cleanup closes the socket of the match before.
SocketOf(m) == m.matchId

\* The two poll effects (deps: currentMatch?.matchId, currentMatch?.status):
\* pollMatchStatus runs while the stored match is not STARTED, pollGameState once
\* it is; the interval is set for the match id and status of the render.
NoTimer == [matchId |-> Null, status |-> Null]
TimerOf(m) == [matchId |-> m.matchId, status |-> m.status]

PollRoles == {"poll-match", "poll-state", "pollgame-match", "pollgame-state"}

\* CancelPolls with the `cancelled` flag never set: the polls of a cleared
\* interval go on to their writes.
CancelPolls_Never(cs, m) == cs

\* The cleanup of a poll effect when the stored match becomes m: `cancelled = true`
\* for the polls of the interval that is cleared, whose continuations then return
\* without a write; what Promise.all held for them is dropped.
CancelPolls(cs, m) ==
    [c \in 1..MaxCalls |->
        IF cs[c].await.role \in PollRoles /\ TimerOf(m) # timer
        THEN IF cs[c].st = "held" THEN FreeCall
             ELSE [cs[c] EXCEPT !.await.role = "cancelled"]
        ELSE cs[c]]

\* The WebSocket effect when the stored match becomes m.  It runs when the match id
\* changes: the cleanup calls close() on the socket of the match before, whose
\* handlers stay attached (a socket that had not opened yet reports an error, then
\* its close); without a match the indicator is set to Disconnected, with one a new
\* socket is created, which will report its opening.
SocketEvent(id, type) == [socket |-> id, type |-> type]
\* EventsAfterEffect with a cleanup that leaves the socket of the match before
\* open.
EventsAfterEffect_NoCleanup(m) ==
    IF SocketOf(m) = socket \/ SocketOf(m) = Null THEN wsEvents
    ELSE wsEvents \cup {SocketEvent(SocketOf(m), "open")}
EventsAfterEffect(m) ==
    IF SocketOf(m) = socket THEN wsEvents
    ELSE LET closed ==
                IF socket = Null THEN {}
                ELSE IF SocketEvent(socket, "open") \in wsEvents
                     THEN {SocketEvent(socket, "error"), SocketEvent(socket, "close")}
                     ELSE {SocketEvent(socket, "close")}
             opened == IF SocketOf(m) = Null THEN {} ELSE {SocketEvent(SocketOf(m), "open")}
         IN  ((wsEvents \ {SocketEvent(socket, "open")}) \cup closed) \cup opened
StatusAfterEffect(m) ==
    IF SocketOf(m) # socket /\ SocketOf(m) = Null THEN "Disconnected" ELSE wsStatus

\* One batch of state updates of App.tsx followed by the effects.
Commit(m, g, e, r, scr, b, cs, iv) ==
    /\ currentMatch' = m
    /\ currentGameState' = g
    /\ error' = e
    /\ busy' = b
    /\ calls' = CancelPolls(cs, m)
    /\ inv' = iv
    /\ route' = AutoNavigate(m, r)
    /\ socket' = SocketOf(m)
    /\ wsStatus' = StatusAfterEffect(m)
    /\ wsEvents' = EventsAfterEffect(m)
    /\ timer' = TimerOf(m)
    /\ screen' = Render(m, g, AutoNavigate(m, r), e, scr)

clientVars ==
    <<currentMatch, currentGameState, error, busy, calls, inv, route, socket, wsStatus, wsEvents, timer, screen>>

\* ------------------------------------------------------------------ the user
\* The user waits for the bootstrap sign-in to end (either way) and answers a
\* dialog before doing anything else: while a hand-action, stage-move or concede
\* dialog is open the user only confirms or cancels it.  A notice is dismissed as
\* soon as it shows, before any other step (the dismissal reads and writes nothing
\* another step reads).
Bootstrapped == authStatus # "Signing in..."
NoticeClosed == screen.infoModalMessage = Null
DialogOpen ==
    \/ screen.pendingHandAction # NoHandActionDraft
    \/ screen.pendingStageMove # NoStageMoveDraft
    \/ screen.showConcedeConfirm
UserFree == Bootstrapped /\ NoticeClosed /\ ~DialogOpen

\* ------------------------------------------------------------------ Init
Init ==
    /\ srv = NoMatch
    /\ issued = 0
    /\ expired = 0
    /\ authToken = NoToken
    /\ currentUserId = Null
    /\ authStatus = "Signing in..."
    /\ mockLineId = "me"
    /\ currentMatch = NoMatchSummary
    /\ currentGameState = NoGameState
    /\ busy = FALSE
    /\ error = Null
    /\ route = "lobby"
    /\ calls = [c \in 1..MaxCalls |-> FreeCall]
    /\ inv = [i \in 1..MaxInvocations |-> IdleInvocation]
    /\ socket = Null
    /\ wsStatus = "Disconnected"
    /\ wsEvents = {}
    /\ timer = NoTimer
    /\ screen = InitialScreen

\* ------------------------------------------------------------------ the session
\* authenticate sends idToken `mock:${lineId}`: the server signs in the user of that
\* mock id, the local player for the id the page starts with ("me"), another user
\* for another id.  (An empty id never reaches the server.)
OtherMockLineId == "other"
MockUser(lineId) == IF lineId = OtherMockLineId THEN Other(LocalPlayer) ELSE LocalPlayer
NewToken == [gen |-> issued + 1, user |-> MockUser(mockLineId)]

\* The bootstrap effect's authenticate(mockLineId) has succeeded.
InitSignIn ==
    /\ NoticeClosed
    /\ authStatus = "Signing in..."
    /\ mockLineId # ""
    /\ issued < MaxLogins
    /\ issued' = issued + 1
    /\ authToken' = NewToken
    /\ currentUserId' = NewToken.user
    /\ authStatus' = "Signed in"
    /\ UNCHANGED <<srv, expired, mockLineId, clientVars>>

\* ... or has failed.
InitSignInFailed ==
    /\ NoticeClosed
    /\ authStatus = "Signing in..."
    /\ authStatus' = "Sign-in failed"
    /\ Commit(currentMatch, currentGameState, SignInFailed, route, screen, busy, calls, inv)
    /\ UNCHANGED <<srvVars, authToken, currentUserId, mockLineId>>

\* onMockLineIdChange: the input of the lobby.
SetMockLineId(v) ==
    /\ NoticeClosed
    /\ route = "lobby"
    /\ v # mockLineId
    /\ mockLineId' = v
    /\ UNCHANGED <<srvVars, sessionVars, clientVars>>

\* The server stops accepting the tokens it has issued so far.
ExpireToken ==
    /\ NoticeClosed
    /\ expired < issued
    /\ expired' = issued
    /\ UNCHANGED <<srv, issued, sessionVars, mockLineId, clientVars>>

\* ------------------------------------------------------------------ handlers of App.tsx
\* The synchronous head of a handler: setBusy(true); setError(null); then the
\* first request leaves through withReauth.
Invoke(kind, arg, scr) ==
    /\ FreeInvocations # {}
    /\ Cardinality(FreeCalls(calls)) >= 2
    /\ Cardinality(StrayCalls) <= MaxStray
    /\ LET i == FirstFreeInvocation
       IN  Commit(currentMatch, currentGameState, Null, route, scr, TRUE,
                  Put(calls, withReauth(kind, [arg EXCEPT !.matchId = currentMatch.matchId],
                                        [inv |-> i, role |-> "action"], authToken)),
                  [inv EXCEPT ![i] = [kind |-> kind, stage |-> "action"]])
    /\ UNCHANGED <<srvVars, sessionVars, mockLineId>>

\* What GameRoomScreen does after `await onX()` has returned.
Cleanup(kind, scr) ==
    CASE kind \in HandActionKinds -> [scr EXCEPT !.pendingHandAction = NoHandActionDraft]
      [] kind = "MOVE_STAGE_HOLOMEM" -> [scr EXCEPT !.pendingStageMove = NoStageMoveDraft]
      [] kind = "CONCEDE" -> [scr EXCEPT !.showConcedeConfirm = FALSE]
      [] OTHER -> scr

\* The `finally { setBusy(false) }` of invocation i, with the last store updates.
Finish(i, m, g, e, cs) ==
    Commit(m, g, e, route, Cleanup(inv[i].kind, screen), FALSE, cs,
           [inv EXCEPT ![i] = IdleInvocation])

\* loadGameState(matchId) of invocation i.
loadGameState(i, matchId, cs) ==
    Put(cs, withReauth("GET_STATE", [NoArg EXCEPT !.matchId = matchId],
                       [inv |-> i, role |-> "refetch"], authToken))

\* syncMatchState(matchId) of invocation i: both requests leave together.
syncMatchState(i, cs) ==
    LET arg == [NoArg EXCEPT !.matchId = currentMatch.matchId]
    IN  Put(Put(cs, withReauth("GET_MATCH", arg, [inv |-> i, role |-> "resync-match"],
                               authToken)),
            withReauth("GET_STATE", arg, [inv |-> i, role |-> "resync-state"], authToken))

Sibling(c) ==
    CHOOSE d \in 1..MaxCalls :
        d # c /\ calls[d].st # "free" /\ calls[d].await.inv = calls[c].await.inv

\* The continuations of a handler, invocation i, once a guarded call of its has
\* given result r; rest are the calls that stay outstanding.
\* ActionSucceeded with setBusy(false) before the re-fetch instead of after it.
ActionSucceeded_ReleasesBusy(i, r, rest) ==
    Commit(r.match, currentGameState, error, route, screen, FALSE,
           loadGameState(i, r.match.matchId, rest), [inv EXCEPT ![i].stage = "refetch"])

\* try: the action has answered: setCurrentMatch(match), then loadGameState.
ActionSucceeded(i, r, rest) ==
    Commit(r.match, currentGameState, error, route, screen, busy,
           loadGameState(i, r.match.matchId, rest), [inv EXCEPT ![i].stage = "refetch"])

\* try: the re-fetch has answered: setCurrentGameState(state); finally.
RefetchSucceeded(i, r, rest) ==
    Finish(i, currentMatch, r.state, error, rest)

\* HandlerFailed without `await syncMatchState(...)`: every handler goes from the
\* catch straight to finally.
HandlerFailed_NoResync(i, r, rest) ==
    Finish(i, currentMatch, currentGameState, CatchMessage(r.err, inv[i].kind), rest)

\* catch: setError(...); a game-room handler then awaits syncMatchState, a lobby
\* handler goes to finally.
HandlerFailed(i, r, rest) ==
    IF inv[i].kind \in LobbyKinds
    THEN Finish(i, currentMatch, currentGameState, CatchMessage(r.err, inv[i].kind), rest)
    ELSE Commit(currentMatch, currentGameState, CatchMessage(r.err, inv[i].kind),
                route, screen, busy,
                syncMatchState(i, rest), [inv EXCEPT ![i].stage = "resync"])

\* ResyncFailed without the `finally` of the handler: the failure of syncMatchState
\* ends the handler with busy left as it is.
ResyncFailed_NoFinally(c, i, rest) ==
    Commit(currentMatch, currentGameState, error, route, screen, busy,
           IF calls[Sibling(c)].st = "held"
           THEN Release(rest, Sibling(c))
           ELSE [rest EXCEPT ![Sibling(c)].await = NoAwait],
           inv)

\* syncMatchState: Promise.all rejects with the first failure, the other request
\* goes on with nobody awaiting it; the catch only logs.
ResyncFailed(c, i, rest) ==
    Finish(i, currentMatch, currentGameState, error,
           IF calls[Sibling(c)].st = "held"
           THEN Release(rest, Sibling(c))
           ELSE [rest EXCEPT ![Sibling(c)].await = NoAwait])

\* syncMatchState: Promise.all resolves when both have answered, then both are
\* stored.
ResyncSucceeded(c, i, r, rest) ==
    IF calls[Sibling(c)].st = "held"
    THEN LET o == calls[Sibling(c)].resp
         IN  Finish(i, IF calls[c].await.role = "resync-match" THEN r.match ELSE o.match,
                    IF calls[c].await.role = "resync-state" THEN r.state ELSE o.state,
                    error, Release(rest, Sibling(c)))
    ELSE Commit(currentMatch, currentGameState, error, route, screen, busy,
                [calls EXCEPT ![c].st = "held", ![c].resp = r], inv)

\* ------------------------------------------------------------------ the poll effects
\* The other request of the Promise.all of the pollGameState that call c belongs to.
PollSibling(c) ==
    CHOOSE d \in 1..MaxCalls :
        d # c /\ calls[d].st # "free" /\ calls[d].await.role \in {"pollgame-match", "pollgame-state"}

\* pollMatchStatus after `await withReauth(() => getMatch(...))`, not cancelled:
\* setCurrentMatch(latest), and for a STARTED match the snapshot is asked for.
PollMatchAnswered(r, rest) ==
    Commit(r.match, currentGameState, error, route, screen, busy,
           IF r.match.status = "STARTED"
           THEN Put(rest, withReauth("GET_STATE", [NoArg EXCEPT !.matchId = r.match.matchId],
                                     [inv |-> 0, role |-> "poll-state"], authToken))
           ELSE rest,
           inv)

\* PollGameAnswered keeping the stored match and snapshot when the answer is of an
\* earlier turn.
PollGameAnswered_KeepsNewer(c, r, rest) ==
    IF calls[PollSibling(c)].st = "held"
    THEN LET o == calls[PollSibling(c)].resp
             m == IF calls[c].await.role = "pollgame-match" THEN r.match ELSE o.match
             g == IF calls[c].await.role = "pollgame-state" THEN r.state ELSE o.state
         IN  IF g.turnNumber < currentGameState.turnNumber
             THEN Commit(currentMatch, currentGameState, error, route, screen, busy,
                         Release(rest, PollSibling(c)), inv)
             ELSE Commit(m, g, error, route, screen, busy, Release(rest, PollSibling(c)), inv)
    ELSE Commit(currentMatch, currentGameState, error, route, screen, busy,
                [calls EXCEPT ![c].st = "held", ![c].resp = r], inv)

\* pollGameState: Promise.all resolves when both requests have answered, then, not
\* cancelled, setCurrentMatch(latestMatch); setCurrentGameState(snapshot).
PollGameAnswered(c, r, rest) ==
    IF calls[PollSibling(c)].st = "held"
    THEN LET o == calls[PollSibling(c)].resp
         IN  Commit(IF calls[c].await.role = "pollgame-match" THEN r.match ELSE o.match,
                    IF calls[c].await.role = "pollgame-state" THEN r.state ELSE o.state,
                    error, route, screen, busy, Release(rest, PollSibling(c)), inv)
    ELSE Commit(currentMatch, currentGameState, error, route, screen, busy,
                [calls EXCEPT ![c].st = "held", ![c].resp = r], inv)

\* PollGameFailed storing what Promise.all already held of the other request.
PollGameFailed_StoresHeld(c, rest) ==
    IF calls[PollSibling(c)].st = "held"
    THEN LET o == calls[PollSibling(c)].resp
         IN  Commit(IF calls[c].await.role = "pollgame-state" THEN o.match ELSE currentMatch,
                    IF calls[c].await.role = "pollgame-match" THEN o.state ELSE currentGameState,
                    error, route, screen, busy, Release(rest, PollSibling(c)), inv)
    ELSE Commit(currentMatch, currentGameState, error, route, screen, busy,
                [rest EXCEPT ![PollSibling(c)].await = NoAwait], inv)

\* pollGameState: Promise.all rejects with the first failure; the catch only logs.
PollGameFailed(c, rest) ==
    Commit(currentMatch, currentGameState, error, route, screen, busy,
           IF calls[PollSibling(c)].st = "held"
           THEN Release(rest, PollSibling(c))
           ELSE [rest EXCEPT ![PollSibling(c)].await = NoAwait],
           inv)

\* The guarded call c gives result r (a value or a thrown error) to its caller.
Settle(c, r) ==
    LET aw == calls[c].await
        i == aw.inv
        rest == Release(calls, c)
    IN
    /\ UNCHANGED <<srvVars, sessionVars, mockLineId>>
    /\ CASE aw.role \in {Null, "cancelled"} ->
              Commit(currentMatch, currentGameState, error, route, screen, busy, rest, inv)
         [] aw.role = "action" /\ r.ok -> ActionSucceeded(i, r, rest)
         [] aw.role = "refetch" /\ r.ok -> RefetchSucceeded(i, r, rest)
         [] aw.role \in {"action", "refetch"} /\ ~r.ok -> HandlerFailed(i, r, rest)
         [] aw.role \in {"resync-match", "resync-state"} /\ ~r.ok -> ResyncFailed(c, i, rest)
         [] aw.role \in {"resync-match", "resync-state"} /\ r.ok ->
              ResyncSucceeded(c, i, r, rest)
         [] aw.role = "poll-match" /\ r.ok -> PollMatchAnswered(r, rest)
         [] aw.role = "poll-state" /\ r.ok ->
              Commit(currentMatch, r.state, error, route, screen, busy, rest, inv)
         [] aw.role \in {"poll-match", "poll-state"} /\ ~r.ok ->
              Commit(currentMatch, currentGameState, error, route, screen, busy, rest, inv)
         [] aw.role \in {"pollgame-match", "pollgame-state"} /\ r.ok ->
              PollGameAnswered(c, r, rest)
         [] aw.role \in {"pollgame-match", "pollgame-state"} /\ ~r.ok ->
              PollGameFailed(c, rest)

\* ------------------------------------------------------------------ the guarded call on the wire
Answer(c, r) == calls' = [calls EXCEPT ![c].st = "answered", ![c].resp = r]

\* The server handles request c: an unaccepted token gives 401, a request about the
\* room that was left is answered from what the server keeps of it, a request the
\* rules refuse gives 409, anything else is applied and answered with the match.
Serve(c) ==
    /\ NoticeClosed
    /\ calls[c].st = "sent"
    /\ LET q == calls[c]
       IN  IF ~Authorized(q.tok)
           THEN Answer(c, Failure(Unauthorized)) /\ srv' = srv
           ELSE IF q.fn \notin {"CREATE_ROOM", "JOIN_ROOM"} /\ q.arg.matchId # srv.id
           THEN /\ srv' = srv
                /\ Answer(c, CASE q.fn = "GET_MATCH" -> OkMatch(srv.old.match)
                                [] q.fn = "GET_STATE" -> OkState(srv.old.state)
                                [] OTHER -> Failure(Conflict))
           ELSE IF q.fn = "GET_MATCH"
           THEN Answer(c, OkMatch(MatchSummary(srv))) /\ srv' = srv
           ELSE IF q.fn = "GET_STATE"
           THEN Answer(c, OkState(GameSnapshot(srv))) /\ srv' = srv
           ELSE IF Legal(srv, q.fn, q.arg, q.tok.user)
           THEN \E b \in (IF q.fn = "START" THEN Boards ELSE {srv.board}) :
                   /\ srv' = [Apply(srv, q.fn, q.arg, q.tok.user) EXCEPT !.board = b]
                   /\ Answer(c, OkMatch(MatchSummary(srv')))
           ELSE Answer(c, Failure(Conflict)) /\ srv' = srv
    /\ UNCHANGED <<issued, expired, sessionVars, mockLineId, socket, wsStatus, wsEvents, timer, currentMatch, currentGameState,
                   error, busy, inv, route, screen>>

\* The request or its answer is lost.
NetFail(c) ==
    /\ NoticeClosed
    /\ calls[c].st = "sent"
    /\ Answer(c, Failure(NetError))
    /\ UNCHANGED <<srvVars, sessionVars, mockLineId, socket, wsStatus, wsEvents, timer, currentMatch, currentGameState,
                   error, busy, inv, route, screen>>

\* Receive with `await withReauth(fn, false)` in place of `return withReauth(fn,
\* false)`: the result of the retry is lost.
Receive_DropsRetryResult(c) ==
    /\ NoticeClosed
    /\ calls[c].st = "answered"
    /\ LET r == calls[c].resp
       IN  IF ~r.ok /\ r.err = Unauthorized /\ calls[c].retry
           THEN IF mockLineId = ""
                THEN Settle(c, Failure(MockIdEmpty))
                ELSE /\ calls' = [calls EXCEPT ![c].st = "login",
                                               ![c].trace = Append(@, "auth")]
                     /\ UNCHANGED <<srvVars, sessionVars, mockLineId, socket, wsStatus, wsEvents, timer, currentMatch,
                                    currentGameState, error, busy, inv, route, screen>>
           ELSE IF r.ok /\ ~calls[c].retry
           THEN Settle(c, [r EXCEPT !.match = NoMatchSummary, !.state = NoGameState])
           ELSE Settle(c, r)

\* Receive with the `retry &&` test dropped: every 401 starts a re-authentication.
Receive_RetryAlways(c) ==
    /\ NoticeClosed
    /\ calls[c].st = "answered"
    /\ LET r == calls[c].resp
       IN  IF ~r.ok /\ r.err = Unauthorized
           THEN IF mockLineId = ""
                THEN Settle(c, Failure(MockIdEmpty))
                ELSE /\ calls' = [calls EXCEPT ![c].st = "login",
                                               ![c].trace = Append(@, "auth")]
                     /\ UNCHANGED <<srvVars, sessionVars, mockLineId, socket, wsStatus, wsEvents, timer, currentMatch,
                                    currentGameState, error, busy, inv, route, screen>>
           ELSE Settle(c, r)

\* Receive with the `status === 401` test dropped: any first failure starts a
\* re-authentication.
Receive_ReauthOnAnyError(c) ==
    /\ NoticeClosed
    /\ calls[c].st = "answered"
    /\ LET r == calls[c].resp
       IN  IF ~r.ok /\ calls[c].retry
           THEN IF mockLineId = ""
                THEN Settle(c, Failure(MockIdEmpty))
                ELSE /\ calls' = [calls EXCEPT ![c].st = "login",
                                               ![c].trace = Append(@, "auth")]
                     /\ UNCHANGED <<srvVars, sessionVars, mockLineId, socket, wsStatus, wsEvents, timer, currentMatch,
                                    currentGameState, error, busy, inv, route, screen>>
           ELSE Settle(c, r)

\* withReauth after `await fn()`: a 401 with the retry still allowed starts
\* authenticate(mockLineId), which throws at once on an empty id; every other
\* outcome goes to the caller.
Receive(c) ==
    /\ NoticeClosed
    /\ calls[c].st = "answered"
    /\ LET r == calls[c].resp
       IN  IF ~r.ok /\ r.err = Unauthorized /\ calls[c].retry
           THEN IF mockLineId = ""
                THEN Settle(c, Failure(MockIdEmpty))
                ELSE /\ calls' = [calls EXCEPT ![c].st = "login",
                                               ![c].trace = Append(@, "auth")]
                     /\ UNCHANGED <<srvVars, sessionVars, mockLineId, socket, wsStatus, wsEvents, timer, currentMatch,
                                    currentGameState, error, busy, inv, route, screen>>
           ELSE Settle(c, r)

\* loginWithLine of the re-authentication succeeds: the token is stored, the user
\* id set, and withReauth(fn, false) sends the request again.
LoginOk(c) ==
    /\ NoticeClosed
    /\ calls[c].st = "login"
    /\ issued < MaxLogins
    /\ issued' = issued + 1
    /\ authToken' = NewToken
    /\ currentUserId' = NewToken.user
    /\ authStatus' = "Signed in"
    /\ calls' = [calls EXCEPT ![c].st = "sent", ![c].tok = NewToken, ![c].retry = FALSE,
                              ![c].trace = Append(@, "fn")]
    /\ UNCHANGED <<srv, expired, mockLineId, socket, wsStatus, wsEvents, timer, currentMatch, currentGameState, error, busy,
                   inv, route, screen>>

\* loginWithLine of the re-authentication fails.
LoginFail(c) ==
    /\ NoticeClosed
    /\ calls[c].st = "login"
    /\ Settle(c, Failure(LoginFailed))

\* PushMessage storing the pushed snapshot with its pending decisions appended to
\* the stored ones instead of replacing them.
PushMessage_AppendsDecisions(withState) ==
    /\ NoticeClosed
    /\ socket # Null /\ socket = srv.id
    /\ Commit(MatchSummary(srv),
              IF withState
              THEN [GameSnapshot(srv) EXCEPT
                      !.pendingDecisions = currentGameState.pendingDecisions \o @]
              ELSE currentGameState,
              error, route, screen, busy, calls, inv)
    /\ UNCHANGED <<srvVars, sessionVars, mockLineId>>

\* socket.onmessage releasing busy when it stores a push.
PushMessage_ClearsBusy(withState) ==
    /\ NoticeClosed
    /\ socket # Null /\ socket = srv.id
    /\ Commit(MatchSummary(srv), IF withState THEN GameSnapshot(srv) ELSE currentGameState,
              error, route, screen, FALSE, calls, inv)
    /\ UNCHANGED <<srvVars, sessionVars, mockLineId>>

\* ------------------------------------------------------------------ the environment
\* The server pushes an envelope over the socket: the match always, the snapshot
\* when the envelope carries one.
PushMessage(withState) ==
    /\ NoticeClosed
    /\ socket # Null /\ socket = srv.id
    /\ Commit(MatchSummary(srv), IF withState THEN GameSnapshot(srv) ELSE currentGameState,
              error, route, screen, busy, calls, inv)
    /\ UNCHANGED <<srvVars, sessionVars, mockLineId>>

\* ------------------------------------------------------------------ socket.onmessage on any text
\* What can arrive on the socket: text that JSON.parse accepts or not and, when it
\* does, a `match` and a `gameState` field that is absent (or falsy), a valid
\* object, or a truthy value that is no LobbyMatch / GameState ("junk").
FieldShapes == {"absent", "valid", "junk"}
Envelopes == [parses : BOOLEAN, match : FieldShapes, gameState : FieldShapes]
WellFormed(env) == env.parses /\ env.match # "junk" /\ env.gameState # "junk"

\* A value that is no LobbyMatch / no GameState, as the readers of the store see it.
JunkMatch == [NoMatchSummary EXCEPT !.status = "junk"]
JunkState == [NoGameState EXCEPT !.status = "junk"]

\* socket.onmessage: JSON.parse in a try whose catch logs; then `if (payload.match)
\* setCurrentMatch(payload.match)` and `if (payload.gameState)
\* setCurrentGameState(payload.gameState)`, the payload being cast, not checked.
onmessage(env) ==
    /\ NoticeClosed
    /\ socket # Null /\ socket = srv.id
    /\ IF ~env.parses
       THEN UNCHANGED vars
       ELSE /\ Commit(CASE env.match = "absent" -> currentMatch
                        [] env.match = "valid" -> MatchSummary(srv)
                        [] env.match = "junk" -> JunkMatch,
                      CASE env.gameState = "absent" -> currentGameState
                        [] env.gameState = "valid" -> GameSnapshot(srv)
                        [] env.gameState = "junk" -> JunkState,
                      error, route, screen, busy, calls, inv)
            /\ UNCHANGED <<srvVars, sessionVars, mockLineId>>

\* The other player acts on the match.
Opponent(fn, flag) ==
    /\ NoticeClosed
    /\ Legal(srv, fn, [NoArg EXCEPT !.code = RoomCode, !.flag = flag], Other(LocalPlayer))
    /\ fn = "TOGGLE_READY" => (flag /\ Other(LocalPlayer) \notin srv.ready)
    /\ fn = "CREATE_ROOM" => srv.id = Null
    /\ \E b \in (IF fn = "START" THEN Boards ELSE {srv.board}) :
          srv' = [Apply(srv, fn, [NoArg EXCEPT !.code = RoomCode, !.flag = flag],
                        Other(LocalPlayer)) EXCEPT !.board = b]
    /\ UNCHANGED <<issued, expired, sessionVars, mockLineId, clientVars>>

\* The rules engine asks for a decision / an interaction.
SrvRaiseDecision(shape) ==
    /\ NoticeClosed
    /\ srv.status = "STARTED"
    /\ srv.nextId <= MaxIds
    /\ Len(srv.pd) + Len(srv.pi) < MaxPending
    /\ srv' = [srv EXCEPT !.pd = Append(@, Decision(srv.nextId, shape)), !.nextId = @ + 1]
    /\ UNCHANGED <<issued, expired, sessionVars, mockLineId, clientVars>>

SrvRaiseInteraction(type) ==
    /\ NoticeClosed
    /\ srv.status = "STARTED"
    /\ srv.nextId <= MaxIds
    /\ Len(srv.pd) + Len(srv.pi) < MaxPending
    /\ srv' = [srv EXCEPT !.pi = Append(@, Interaction(srv.nextId, type)), !.nextId = @ + 1]
    /\ UNCHANGED <<issued, expired, sessionVars, mockLineId, clientVars>>

\* The rules engine changes the local player's side of the board while the match
\* goes on (an effect resolves, a card is knocked out, a placement is made).
SrvChangeBoard(b) ==
    /\ NoticeClosed
    /\ srv.status = "STARTED"
    /\ b # srv.board
    /\ srv' = [srv EXCEPT !.board = b]
    /\ UNCHANGED <<issued, expired, sessionVars, mockLineId, clientVars>>

\* pollMatchStatus ticking whatever the status of the stored match.
pollMatchStatus_AnyStatus ==
    /\ NoticeClosed
    /\ timer # NoTimer
    /\ \A c \in 1..MaxCalls : calls[c].await.role \notin {"poll-match", "poll-state"}
    /\ Cardinality(FreeCalls(calls)) >= 3
    /\ calls' = Put(calls, withReauth("GET_MATCH", [NoArg EXCEPT !.matchId = timer.matchId],
                                      [inv |-> 0, role |-> "poll-match"], authToken))
    /\ UNCHANGED <<srvVars, sessionVars, mockLineId, socket, wsStatus, wsEvents, timer, currentMatch,
                   currentGameState, busy, error, route, inv, screen>>

\* ------------------------------------------------------------------ the poll timers
\* A tick of the interval of pollMatchStatus (2000 ms), or the call the effect
\* makes when it starts; the next tick comes when the poll before has ended, and a
\* poll leaves two slots to the requests of a handler.
pollMatchStatus ==
    /\ NoticeClosed
    /\ timer # NoTimer /\ timer.status # "STARTED"
    /\ \A c \in 1..MaxCalls : calls[c].await.role \notin PollRoles
    /\ Cardinality(FreeCalls(calls)) >= 3
    /\ calls' = Put(calls, withReauth("GET_MATCH", [NoArg EXCEPT !.matchId = timer.matchId],
                                      [inv |-> 0, role |-> "poll-match"], authToken))
    /\ UNCHANGED <<srvVars, sessionVars, mockLineId, socket, wsStatus, wsEvents, timer, currentMatch,
                   currentGameState, busy, error, route, inv, screen>>

\* A tick of the interval of pollGameState (1500 ms), or the call the effect makes
\* when it starts: both requests leave together.
pollGameState ==
    /\ NoticeClosed
    /\ timer # NoTimer /\ timer.status = "STARTED"
    /\ \A c \in 1..MaxCalls : calls[c].await.role \notin PollRoles
    /\ Cardinality(FreeCalls(calls)) >= 4
    /\ LET arg == [NoArg EXCEPT !.matchId = timer.matchId]
       IN  calls' = Put(Put(calls, withReauth("GET_MATCH", arg,
                                              [inv |-> 0, role |-> "pollgame-match"], authToken)),
                        withReauth("GET_STATE", arg,
                                   [inv |-> 0, role |-> "pollgame-state"], authToken))
    /\ UNCHANGED <<srvVars, sessionVars, mockLineId, socket, wsStatus, wsEvents, timer, currentMatch,
                   currentGameState, busy, error, route, inv, screen>>

\* ------------------------------------------------------------------ LobbyScreen
\* Every button of the lobby is disabled while busy.
handleCreateRoom ==
    /\ UserFree
    /\ route = "lobby" /\ ~busy
    /\ Invoke("CREATE_ROOM", NoArg, screen)

RoomCodeInputs == {"", RoomCode}
handleJoinRoom(roomCodeInput) ==
    /\ UserFree
    /\ route = "lobby" /\ ~busy
    /\ IF roomCodeInput = ""
       THEN /\ Commit(currentMatch, currentGameState, RoomCodeMissing, route, screen, busy,
                      calls, inv)
            /\ UNCHANGED <<srvVars, sessionVars, mockLineId>>
       ELSE Invoke("JOIN_ROOM", [NoArg EXCEPT !.code = roomCodeInput], screen)

handleToggleReady ==
    /\ UserFree
    /\ route = "lobby" /\ ~busy
    /\ currentMatch # NoMatchSummary
    /\ currentUserId \in currentMatch.players
    /\ Invoke("TOGGLE_READY", [NoArg EXCEPT !.flag = currentUserId \notin currentMatch.ready],
              screen)

handleStart ==
    /\ UserFree
    /\ route = "lobby" /\ ~busy
    /\ currentMatch.host = currentUserId /\ currentMatch.status = "READY"
    /\ Invoke("START", NoArg, screen)

\* ------------------------------------------------------------------ GameRoomScreen: handlers
SetScreen(scr) ==
    /\ scr # screen
    /\ screen' = scr
    /\ UNCHANGED <<srvVars, sessionVars, mockLineId, socket, wsStatus, wsEvents, timer, currentMatch, currentGameState, busy,
                   error, route, calls, inv>>
ShowInfo(text) == SetScreen([screen EXCEPT !.infoModalMessage = text])

HandActionReason(kind) ==
    IF resolveGlobalActionBlockReason # Null THEN resolveGlobalActionBlockReason
    ELSE NotSelectable

\* A click on a hand card whose default action is `kind` (the button is disabled
\* while busy).
openHandAction(kind) ==
    /\ UserFree
    /\ gameRoomMounted /\ ~busy
    /\ kind \in myState.hand
    /\ IF HandActionSelectable(kind)
       THEN SetScreen([screen EXCEPT !.pendingHandAction =
                          [kind |-> kind, target |-> kind \in {"ATTACH_CHEER", "BLOOM"}]])
       ELSE ShowInfo(HandActionReason(kind))

cancelHandAction ==
    /\ NoticeClosed
    /\ gameRoomMounted
    /\ SetScreen([screen EXCEPT !.pendingHandAction = NoHandActionDraft])

confirmHandAction ==
    /\ NoticeClosed
    /\ gameRoomMounted
    /\ screen.pendingHandAction # NoHandActionDraft
    /\ canSubmitAction
    /\ screen.pendingHandAction.kind \in {"BLOOM", "ATTACH_CHEER"} => screen.pendingHandAction.target
    /\ Invoke(screen.pendingHandAction.kind, NoArg, screen)

DeckZone == 5
CheerDeckZone == 8
\* handleMyZoneClick without the call of resolveGlobalActionBlockReason.
handleMyZoneClick_NoGate(zoneId) ==
    /\ UserFree
    /\ gameRoomMounted
    /\ IF zoneId = DeckZone
       THEN IF hasUsedTurnDraw THEN ShowInfo(DrawUsed) ELSE Invoke("DRAW_TURN", NoArg, screen)
       ELSE IF hasUsedTurnCheer THEN ShowInfo(CheerUsed) ELSE Invoke("TURN_CHEER", NoArg, screen)

handleMyZoneClick(zoneId) ==
    /\ UserFree
    /\ gameRoomMounted
    /\ IF resolveGlobalActionBlockReason # Null
       THEN ShowInfo(resolveGlobalActionBlockReason)
       ELSE IF zoneId = DeckZone
       THEN IF hasUsedTurnDraw THEN ShowInfo(DrawUsed) ELSE Invoke("DRAW_TURN", NoArg, screen)
       ELSE IF hasUsedTurnCheer THEN ShowInfo(CheerUsed) ELSE Invoke("TURN_CHEER", NoArg, screen)

\* A click on one of the local player's cards in BACK.
handleMyZoneCardClick ==
    /\ UserFree
    /\ gameRoomMounted
    /\ myBackHolomems > 0
    /\ IF resolveGlobalActionBlockReason # Null
       THEN ShowInfo(resolveGlobalActionBlockReason)
       ELSE SetScreen([screen EXCEPT !.pendingStageMove =
                [targetZone |-> IF myCenterHolomems = 0 THEN "CENTER" ELSE "COLLAB",
                 movable |-> myCenterHolomems = 0 \/ myCollabHolomems = 0,
                 blockedReason |-> IF myCenterHolomems = 0 \/ myCollabHolomems = 0
                                   THEN Null ELSE StageOccupied]])

\* The target-zone select of the stage-move dialog: disabled for a draft that is not
\* movable, its options the zones that are empty in the snapshot on screen.
selectStageMoveTarget(zone) ==
    /\ NoticeClosed
    /\ gameRoomMounted
    /\ screen.pendingStageMove # NoStageMoveDraft
    /\ screen.pendingStageMove.movable
    /\ zone = "CENTER" => myCenterHolomems = 0
    /\ zone = "COLLAB" => myCollabHolomems = 0
    /\ SetScreen([screen EXCEPT !.pendingStageMove.targetZone = zone])

cancelStageMove ==
    /\ NoticeClosed
    /\ gameRoomMounted
    /\ SetScreen([screen EXCEPT !.pendingStageMove = NoStageMoveDraft])

confirmStageMove ==
    /\ NoticeClosed
    /\ gameRoomMounted
    /\ screen.pendingStageMove # NoStageMoveDraft
    /\ canSubmitAction
    /\ screen.pendingStageMove.movable
    /\ Invoke("MOVE_STAGE_HOLOMEM", NoArg, screen)

\* The attack button: disabled unless canSubmitAction and an attacker is selected,
\* which the attacker effect keeps at the first CENTER card.
attackClick ==
    /\ UserFree
    /\ gameRoomMounted
    /\ canSubmitAction
    /\ myCenterHolomems > 0
    /\ Invoke("ATTACK_ART", NoArg, screen)

\* handleEndTurnClick: `missing`, the mandatory actions of the turn not yet used.
missingTurnActions ==
    (IF ~hasUsedTurnDraw THEN <<"draw">> ELSE <<>>)
       \o (IF canPerformTurnCheer /\ ~hasUsedTurnCheer THEN <<"cheer">> ELSE <<>>)

\* handleEndTurnClick without the send-cheer entry of `missing`.
handleEndTurnClick_NoCheerCheck ==
    /\ UserFree
    /\ gameRoomMounted
    /\ ~busy /\ isMyTurn
    /\ IF ~hasUsedTurnDraw
       THEN ShowInfo(TurnIncomplete(<<"draw">>))
       ELSE Invoke("END_TURN", NoArg, screen)

\* handleEndTurnClick without `busy ||` in its first test.
handleEndTurnClick_NoBusyCheck ==
    /\ UserFree
    /\ gameRoomMounted
    /\ isMyTurn
    /\ IF missingTurnActions # <<>>
       THEN ShowInfo(TurnIncomplete(missingTurnActions))
       ELSE Invoke("END_TURN", NoArg, screen)

handleEndTurnClick ==
    /\ UserFree
    /\ gameRoomMounted
    /\ ~busy /\ isMyTurn
    /\ IF missingTurnActions # <<>>
       THEN ShowInfo(TurnIncomplete(missingTurnActions))
       ELSE Invoke("END_TURN", NoArg, screen)

handleConcedeClick ==
    /\ UserFree
    /\ gameRoomMounted
    /\ ~busy /\ currentMatch.status = "STARTED"
    /\ SetScreen([screen EXCEPT !.showConcedeConfirm = TRUE])

cancelConcede ==
    /\ NoticeClosed
    /\ gameRoomMounted
    /\ SetScreen([screen EXCEPT !.showConcedeConfirm = FALSE])

confirmConcede ==
    /\ NoticeClosed
    /\ gameRoomMounted
    /\ screen.showConcedeConfirm
    /\ ~busy
    /\ Invoke("CONCEDE", NoArg, screen)

Toggle(selection, card, maxSelect) ==
    IF card \in selection THEN selection \ {card}
    ELSE IF Cardinality(selection) >= maxSelect THEN selection
    ELSE selection \cup {card}

toggleDecisionSelection(card) ==
    /\ UserFree
    /\ gameRoomMounted
    /\ activePendingDecision # NoDecision /\ ~busy
    /\ SetScreen([screen EXCEPT !.selectedDecisionCardInstanceIds =
                     Toggle(@, card, activePendingDecision.maxSelect)])

\* The confirm button of the decision panel (disabled unless canResolveDecision).
resolveDecisionClick ==
    /\ UserFree
    /\ gameRoomMounted
    /\ canResolveDecision
    /\ Invoke("RESOLVE_DECISION",
              [NoArg EXCEPT !.decisionId = activePendingDecision.decisionId,
                            !.selected = Cardinality(screen.selectedDecisionCardInstanceIds)],
              screen)

toggleInteractionSelection(card) ==
    /\ UserFree
    /\ gameRoomMounted
    /\ activePendingInteraction # NoInteraction /\ ~busy
    /\ activePendingInteraction.interactionType = "SEND_CHEER"
    /\ SetScreen([screen EXCEPT !.selectedInteractionCardInstanceIds =
                     Toggle(@, card, activePendingInteraction.maxSelect)])

\* A placement option of the LOOK_TOP_DECK interaction.
selectInteractionPlacement ==
    /\ UserFree
    /\ gameRoomMounted
    /\ activePendingInteraction.interactionType = "LOOK_TOP_DECK"
    /\ SetScreen([screen EXCEPT !.selectedInteractionPlacement = "TOP"])

\* The confirm button of the interaction modal (disabled unless
\* canConfirmInteraction); it sends resolve-decision with the interaction id.
confirmInteractionClick ==
    /\ UserFree
    /\ gameRoomMounted
    /\ canConfirmInteraction
    /\ Invoke("RESOLVE_DECISION",
              [NoArg EXCEPT !.decisionId = activePendingInteraction.interactionId,
                            !.selected =
                                IF activePendingInteraction.interactionType = "SEND_CHEER"
                                THEN Cardinality(screen.selectedInteractionCardInstanceIds)
                                ELSE 0],
              screen)

dismissInfoModal ==
    /\ gameRoomMounted
    /\ SetScreen([screen EXCEPT !.infoModalMessage = Null])

\* navigate('/lobby'): the screen is unmounted; the auto-navigation effect brings a
\* started match back to the game room with fresh state cells.
onBackToLobby ==
    /\ UserFree
    /\ gameRoomMounted
    /\ route' = AutoNavigate(currentMatch, "lobby")
    /\ screen' = IF Mounted(currentMatch, route')
                 THEN [InitialScreen EXCEPT !.infoModalMessage = error]
                 ELSE InitialScreen
    /\ UNCHANGED <<srvVars, sessionVars, mockLineId, socket, wsStatus, wsEvents, timer, currentMatch, currentGameState, busy,
                   error, calls, inv>>

\* ------------------------------------------------------------------ the system
OpponentKinds == {"CREATE_ROOM", "JOIN_ROOM", "TOGGLE_READY", "START", "END_TURN", "CONCEDE"}

Session ==
    \/ InitSignIn
    \/ InitSignInFailed
    \/ \E c \in 1..MaxCalls : LoginOk(c)
    \/ \E c \in 1..MaxCalls : LoginFail(c)

Wire ==
    \/ \E c \in 1..MaxCalls : Serve(c)
    \/ \E c \in 1..MaxCalls : Receive(c)

\* What makes a request fail for a reason of the session or of the network.
Trouble ==
    \/ \E v \in {"me", ""} : SetMockLineId(v)
    \/ ExpireToken
    \/ \E c \in 1..MaxCalls : NetFail(c)

Environment ==
    \/ \E withState \in BOOLEAN : PushMessage(withState)
    \/ \E fn \in OpponentKinds : Opponent(fn, TRUE)
    \/ \E shape \in DecisionShapes : SrvRaiseDecision(shape)
    \/ \E type \in InteractionTypes : SrvRaiseInteraction(type)

Lobby ==
    \/ handleCreateRoom
    \/ \E code \in RoomCodeInputs : handleJoinRoom(code)
    \/ handleToggleReady
    \/ handleStart

Board ==
    \/ \E kind \in HandActionKinds : openHandAction(kind)
    \/ \E zoneId \in {DeckZone, CheerDeckZone} : handleMyZoneClick(zoneId)
    \/ handleMyZoneCardClick
    \/ attackClick
    \/ handleEndTurnClick
    \/ handleConcedeClick
    \/ \E card \in Candidates : toggleDecisionSelection(card)
    \/ resolveDecisionClick
    \/ \E card \in Candidates : toggleInteractionSelection(card)
    \/ selectInteractionPlacement
    \/ confirmInteractionClick
    \/ onBackToLobby

Dialog ==
    \/ cancelHandAction
    \/ confirmHandAction
    \/ cancelStageMove
    \/ confirmStageMove
    \/ cancelConcede
    \/ confirmConcede

\* The system while the tokens stay valid and the network delivers: every handler
\* of the lobby and of the game room, the pushes, the opponent and the prompts of
\* the rules engine.
Next == dismissInfoModal \/ Session \/ Wire \/ Environment \/ Lobby \/ Board \/ Dialog

Spec == Init /\ [][Next]_vars

\* The system with expiring tokens, a changing mock id and a failing network,
\* while the user plays the lobby and draws: the guarded calls of the lobby
\* handlers, of a game-room handler, of its re-fetch and of its re-sync.
GuardOpponentKinds == {"CREATE_ROOM", "JOIN_ROOM", "TOGGLE_READY", "START"}
NextGuard ==
    \/ dismissInfoModal
    \/ Session
    \/ Wire
    \/ Trouble
    \/ PushMessage(TRUE)
    \/ \E fn \in GuardOpponentKinds : Opponent(fn, TRUE)
    \/ Lobby
    \/ handleMyZoneClick(DeckZone)

SpecGuard == Init /\ [][NextGuard]_vars

\* ------------------------------------------------------------------ the sync channels
\* The system with its two sync channels, the pushes and the polls, while the user
\* plays the lobby, opens a second room and goes back to the lobby from the game
\* room, and the other player joins, starts and concedes.
SyncOpponentKinds == {"CREATE_ROOM", "JOIN_ROOM", "TOGGLE_READY", "START", "CONCEDE"}
NextSync ==
    \/ InitSignIn
    \/ Wire
    \/ \E withState \in BOOLEAN : PushMessage(withState)
    \/ \E fn \in SyncOpponentKinds : Opponent(fn, TRUE)
    \/ pollMatchStatus
    \/ pollGameState
    \/ handleCreateRoom
    \/ handleJoinRoom(RoomCode)
    \/ handleToggleReady
    \/ handleStart
    \/ onBackToLobby

SpecSync == Init /\ [][NextSync]_vars

\* ------------------------------------------------------------------ the gate on its own
\* The game room with every combination of the gate's inputs: a handler under way
\* or none, either turn owner, a snapshot from before or after the start, a
\* pending decision and a pending interaction or neither, any board; the user
\* clicks the zones, the cards in BACK and the hand.
SnapshotStatuses == {"READY", "STARTED"}
DecisionQueues == {<<>>} \cup {<<Decision(MaxIds, shape)>> : shape \in DecisionShapes}
InteractionQueues == {<<>>} \cup {<<Interaction(MaxIds + 1, type)>> : type \in InteractionTypes}

Playing(owner, pd, pi, board) ==
    [NoMatch EXCEPT !.id = MatchId, !.status = "STARTED", !.host = LocalPlayer, !.players = Players,
                    !.ready = Players, !.owner = owner, !.turn = 1, !.pd = pd, !.pi = pi,
                    !.nextId = MaxIds + 2, !.board = board]

InitBlockReason ==
    /\ issued = 1
    /\ expired = 0
    /\ authToken = [gen |-> 1, user |-> LocalPlayer]
    /\ currentUserId = LocalPlayer
    /\ authStatus = "Signed in"
    /\ mockLineId = "me"
    /\ error = Null
    /\ route = "game"
    /\ screen = InitialScreen
    /\ \E owner \in Players, pd \in DecisionQueues, pi \in InteractionQueues, board \in Boards :
          srv = Playing(owner, pd, pi, board)
    /\ currentMatch = MatchSummary(srv)
    /\ socket = SocketOf(currentMatch)
    /\ wsStatus = "Connected"
    /\ wsEvents = {}
    /\ timer = TimerOf(currentMatch)
    /\ \E status \in SnapshotStatuses :
          currentGameState = [GameSnapshot(srv) EXCEPT !.status = status]
    /\ busy \in BOOLEAN
    /\ inv = [i \in 1..MaxInvocations |->
                IF busy /\ i = 1 THEN [kind |-> "ATTACK_ART", stage |-> "action"]
                ELSE IdleInvocation]
    /\ calls = [c \in 1..MaxCalls |->
                  IF busy /\ c = 1
                  THEN withReauth("ATTACK_ART", [NoArg EXCEPT !.matchId = MatchId], [inv |-> 1, role |-> "action"], authToken)
                  ELSE FreeCall]

NextBlockReason ==
    \/ dismissInfoModal
    \/ \E zoneId \in {DeckZone, CheerDeckZone} : handleMyZoneClick(zoneId)
    \/ handleMyZoneCardClick
    \/ \E kind \in HandActionKinds : openHandAction(kind)

SpecBlockReason == InitBlockReason /\ [][NextBlockReason]_vars

\* ------------------------------------------------------------------ the socket on its own
\* The game room in any state of the gate, with any text arriving on the socket.
NextPush == \E env \in Envelopes : onmessage(env)

SpecPush == InitBlockReason /\ [][NextPush]_vars

\* ------------------------------------------------------------------ the polls on their own
\* Every push is lost: the store is fed by the two polls and by the answers to the
\* lobby handlers only, while the other player joins, starts and concedes.  The
\* intervals keep firing (setInterval), every request sent is served and every
\* answer received (the network delivers), and a notice is dismissed.
NextPoll ==
    \/ InitSignIn
    \/ \E c \in 1..MaxCalls : Serve(c)
    \/ \E c \in 1..MaxCalls : Receive(c)
    \/ \E fn \in SyncOpponentKinds : Opponent(fn, TRUE)
    \/ pollMatchStatus
    \/ pollGameState
    \/ handleCreateRoom
    \/ handleJoinRoom(RoomCode)
    \/ handleToggleReady
    \/ handleStart
    \/ dismissInfoModal

FairPoll ==
    /\ WF_vars(pollMatchStatus)
    /\ WF_vars(pollGameState)
    /\ WF_vars(dismissInfoModal)
    /\ \A c \in 1..MaxCalls : WF_vars(Serve(c)) /\ WF_vars(Receive(c))

SpecPoll == Init /\ [][NextPoll]_vars /\ FairPoll

\* ------------------------------------------------------------------ a turn with its sync channels
\* The game room of a started match with no interaction pending, with the pushes
\* and pollGameState feeding the store while the local player draws, sends cheer and ends
\* the turn, and the other player ends theirs.
InitTurn ==
    /\ InitBlockReason
    /\ srv.pi = <<>>
    /\ currentGameState.status = "STARTED"

NextTurn ==
    \/ Wire
    \/ \E withState \in BOOLEAN : PushMessage(withState)
    \/ pollGameState
    \/ Opponent("END_TURN", TRUE)
    \/ \E zoneId \in {DeckZone, CheerDeckZone} : handleMyZoneClick(zoneId)
    \/ handleEndTurnClick
    \/ dismissInfoModal

SpecTurn == InitTurn /\ [][NextTurn]_vars

\* ------------------------------------------------------------------ BLOOM on its own
\* The game room on the local player's turn with nothing pending, a BLOOM card in
\* hand and up to MaxUnits different cards on the field, the catalog entries of
\* which are drawn from the names and levels below ('' for a missing one).
MaxUnits == 3
BloomNames == {"X", " X", "Y", ""}
BloomLevels == {"DEBUT", "FIRST", "SECOND", "SPOT", "BUZZ", ""}
UnitInfos == {CardInfo(name, levelType) : name \in BloomNames, levelType \in BloomLevels}
Fields == {{}} \cup {{a, b, c} : a \in UnitInfos, b \in UnitInfos, c \in UnitInfos}
BloomCards ==
    {info \in {CardInfo(name, levelType) : name \in {"X", " X"}, levelType \in BloomLevels} :
        resolveDefaultHandAction(info) = "BLOOM"}
BloomBoards ==
    {[center |-> IF field = {} THEN 0 ELSE 1, collab |-> 0,
      back |-> IF field = {} THEN 0 ELSE Cardinality(field) - 1, cheerDeck |-> 1,
      units |-> field, bloomCard |-> bloomCard, hand |-> {"BLOOM"}] :
        field \in Fields, bloomCard \in BloomCards}

InitBloom ==
    /\ issued = 1
    /\ expired = 0
    /\ authToken = [gen |-> 1, user |-> LocalPlayer]
    /\ currentUserId = LocalPlayer
    /\ authStatus = "Signed in"
    /\ mockLineId = "me"
    /\ error = Null
    /\ route = "game"
    /\ screen = InitialScreen
    /\ \E board \in BloomBoards : srv = Playing(LocalPlayer, <<>>, <<>>, board)
    /\ currentMatch = MatchSummary(srv)
    /\ socket = SocketOf(currentMatch)
    /\ wsStatus = "Connected"
    /\ wsEvents = {}
    /\ timer = TimerOf(currentMatch)
    /\ currentGameState = GameSnapshot(srv)
    /\ busy = FALSE
    /\ inv = [i \in 1..MaxInvocations |-> IdleInvocation]
    /\ calls = [c \in 1..MaxCalls |-> FreeCall]

NextBloom ==
    \/ openHandAction("BLOOM")
    \/ cancelHandAction
    \/ dismissInfoModal

SpecBloom == InitBloom /\ [][NextBloom]_vars

\* ------------------------------------------------------------------ drafts and the board
\* The game room on the local player's turn with nothing pending: the player opens,
\* edits, confirms and cancels hand-action and stage-move drafts while the board
\* changes on the server and the pushes bring the new snapshots.
InitDraft ==
    /\ InitTurn
    /\ srv.pd = <<>>
    /\ srv.owner = LocalPlayer
    /\ ~busy

NextDraft ==
    \/ Wire
    \/ PushMessage(TRUE)
    \/ \E b \in Boards : SrvChangeBoard(b)
    \/ \E kind \in HandActionKinds : openHandAction(kind)
    \/ cancelHandAction
    \/ confirmHandAction
    \/ handleMyZoneCardClick
    \/ \E zone \in {"CENTER", "COLLAB"} : selectStageMoveTarget(zone)
    \/ cancelStageMove
    \/ confirmStageMove
    \/ dismissInfoModal

SpecDraft == InitDraft /\ [][NextDraft]_vars

\* ------------------------------------------------------------------ properties
\* A handler's first request leaves in this step through slot c.
Dispatched(c) ==
    /\ calls[c].st = "free"
    /\ calls'[c].st = "sent"
    /\ calls'[c].await.role = "action"

\* A request of one of `kinds` leaves in this step.
Dispatches(kinds) == \E c \in 1..MaxCalls : Dispatched(c) /\ calls'[c].fn \in kinds

\* The five gate conditions, the turn owner being read from `owner`.
GateHolds(owner) ==
    /\ ~busy
    /\ currentUserId # Null /\ currentUserId = owner
    /\ currentGameState.status = "STARTED"
    /\ pendingDecisions = <<>>
    /\ pendingInteractions = <<>>

\* C1 as stated: an ordinary action request is dispatched only if busy is false,
\* the local player id equals the snapshot's active-turn-owner id, the status is
\* STARTED and both pending queues are empty.
C1_GateOnSnapshotOwner ==
    [][Dispatches(OrdinaryKinds) => GateHolds(currentGameState.currentTurnPlayerId)]_vars

\* C1: an ordinary action request is dispatched only if, at the moment of dispatch,
\* busy is false, the local player id equals the active-turn-owner id of the stored
\* MatchSummary, the stored snapshot's status is STARTED and the snapshot's
\* PendingDecision and PendingInteraction queues are empty.
C1_GateOnMatchOwner ==
    [][Dispatches(OrdinaryKinds) => GateHolds(currentMatch.currentTurnPlayerId)]_vars

\* An ordinary action request is on its way while the snapshot names the other
\* player as the turn owner.
C1_Witness ==
    \E c \in 1..MaxCalls :
        /\ calls[c].st = "sent" /\ calls[c].await.role = "action"
        /\ calls[c].fn \in OrdinaryKinds
        /\ currentMatch.currentTurnPlayerId = currentUserId
        /\ currentGameState.currentTurnPlayerId # currentUserId

\* C2: at most one handler invocation is outstanding (its request or its
\* post-action re-fetch / re-sync), at most one action request is in flight, and
\* while one is outstanding busy is set and the gate's reason is busy, so that a
\* second resolver call is refused and sends nothing.
C2_SingleInFlight ==
    LET active == {i \in 1..MaxInvocations : inv[i].stage # "idle"}
        actions == {c \in 1..MaxCalls : calls[c].st # "free" /\ calls[c].await.role = "action"}
    IN  /\ Cardinality(active) <= 1
        /\ Cardinality(actions) <= 1
        /\ busy <=> active # {}
        /\ active # {} => (~canSubmitAction /\ resolveGlobalActionBlockReason = BlockBusy)

\* A click on a deck zone has been refused as busy while the post-action re-sync of
\* an earlier resolver call is outstanding.
C2_Witness ==
    /\ \E i \in 1..MaxInvocations : inv[i].stage = "resync"
    /\ screen.infoModalMessage = BlockBusy

\* C3 as stated: while the snapshot's PendingDecisions queue is non-empty no request
\* of a resolver other than resolve-decision is dispatched, end-turn and concede
\* included.
C3_NoDispatchWhileDecisionPending ==
    [][pendingDecisions # <<>> => ~Dispatches(GameKinds \ {"RESOLVE_DECISION"})]_vars

\* C4 as stated: while the snapshot's PendingInteractions queue is non-empty no
\* request is dispatched by a resolver except the resolution of the head
\* interaction, end-turn and concede included.
C4_NoDispatchWhileInteractionPending ==
    [][pendingInteractions # <<>> =>
          \A c \in 1..MaxCalls :
             Dispatched(c) /\ calls'[c].fn \in GameKinds =>
                /\ calls'[c].fn = "RESOLVE_DECISION"
                /\ calls'[c].arg.decisionId = activePendingInteraction.interactionId]_vars

\* C5: resolveGlobalActionBlockReason gives the cause of the first failing gate
\* condition in the order busy, not-your-turn, not-started, decision-pending,
\* interaction-pending, whatever else fails, and no reason only when none fails.
C5_FirstFailingReason ==
    LET fails == <<busy,
                   ~(currentUserId # Null /\ currentMatch.currentTurnPlayerId = currentUserId),
                   currentGameState.status # "STARTED",
                   pendingDecisions # <<>>,
                   pendingInteractions # <<>>>>
        reasons == <<BlockBusy, BlockNotYourTurn, BlockNotStarted, BlockDecisionPending,
                     BlockInteractionPending>>
        failing == {k \in DOMAIN fails : fails[k]}
    IN  IF failing = {} THEN resolveGlobalActionBlockReason = Null
        ELSE resolveGlobalActionBlockReason =
                reasons[CHOOSE k \in failing : \A j \in failing : k <= j]

\* All five conditions fail at once and the refused click shows busy.
C5_Witness ==
    /\ busy /\ ~isMyTurn /\ currentGameState.status # "STARTED"
    /\ pendingDecisions # <<>> /\ pendingInteractions # <<>>
    /\ screen.infoModalMessage = BlockBusy

BlockReasons ==
    {BlockBusy, BlockNotYourTurn, BlockNotStarted, BlockDecisionPending, BlockInteractionPending}

\* C6 as stated: while PendingDecisions is non-empty every resolver call other than
\* resolve-decision is refused, and the reason it is refused with is
\* decision-pending, whoever owns the turn.
C6_RefusedAsDecisionPending ==
    [][pendingDecisions # <<>> =>
          /\ ~Dispatches(GameKinds \ {"RESOLVE_DECISION"})
          /\ (screen'.infoModalMessage \in BlockReasons
              /\ screen'.infoModalMessage # screen.infoModalMessage)
                => screen'.infoModalMessage = BlockDecisionPending]_vars

\* The guarded call in slot c ends or goes on in this step.
Leaves(c) == calls[c].st = "answered" /\ calls'[c].st # "answered"

\* The caller of the guarded call in slot c gets the value the call was answered
\* with: the awaiting handler stores it, or Promise.all holds it for the handler.
ResultReaches(c) ==
    LET r == calls[c].resp
        role == calls[c].await.role
    IN  CASE role = "action" -> currentMatch' = r.match
          [] role = "refetch" -> currentGameState' = r.state
          [] role = "resync-match" ->
                (calls'[c].st = "held" /\ calls'[c].resp = r) \/ currentMatch' = r.match
          [] role = "resync-state" ->
                (calls'[c].st = "held" /\ calls'[c].resp = r) \/ currentGameState' = r.state
          [] OTHER -> TRUE

\* The catch of the caller of the guarded call in slot c gets error e: a handler
\* puts its message in the error slot, syncMatchState ends the handler.
FailureReaches(c, e) ==
    LET aw == calls[c].await
    IN  CASE aw.role \in {"action", "refetch"} ->
                error' = CatchMessage(e, inv[aw.inv].kind)
          [] aw.role \in {"resync-match", "resync-state"} ->
                inv'[aw.inv].stage = "idle" /\ ~busy' /\ error' = error
          [] OTHER -> TRUE

\* No request and no login of the guarded call that was in slot c is outstanding
\* after this step: the slot is free, keeps the result for Promise.all, or holds a
\* new call's first request.
NoFurtherAttempt(c) == calls'[c].st \in {"free", "held"} \/ calls'[c].trace = <<"fn">>

\* C7: a guarded call whose first attempt was answered 401 and whose second attempt
\* succeeded gives that successful result to its caller, having re-authenticated
\* exactly once, between the two attempts, and not again.
C7_RetrySuccessReturned ==
    [][\A c \in 1..MaxCalls :
          Leaves(c) /\ calls[c].resp.ok /\ ~calls[c].retry =>
             /\ calls[c].trace = <<"fn", "auth", "fn">>
             /\ ResultReaches(c)
             /\ NoFurtherAttempt(c)
             /\ issued' = issued /\ authToken' = authToken]_vars

\* A handler's request has been answered 401, the re-authentication has succeeded
\* and the second attempt has been answered with a result.
C7_Witness ==
    \E c \in 1..MaxCalls :
        /\ calls[c].st = "answered" /\ calls[c].resp.ok
        /\ calls[c].await.role = "action"
        /\ calls[c].trace = <<"fn", "auth", "fn">>

\* C8: a guarded call invokes the wrapped request at most twice and
\* re-authenticates at most once, in the order request, re-authentication,
\* request, whatever the server answers; the retry is spent with the second
\* request.
C8_AtMostTwoAttempts ==
    \A c \in 1..MaxCalls :
        calls[c].st # "free" =>
            /\ calls[c].trace \in {<<"fn">>, <<"fn", "auth">>, <<"fn", "auth", "fn">>}
            /\ calls[c].retry <=> calls[c].trace # <<"fn", "auth", "fn">>
            /\ calls[c].st = "login" <=> calls[c].trace = <<"fn", "auth">>

\* Both attempts of a guarded call have been answered 401.
C8_Witness ==
    \E c \in 1..MaxCalls :
        /\ calls[c].st = "answered"
        /\ calls[c].trace = <<"fn", "auth", "fn">>
        /\ ~calls[c].resp.ok /\ calls[c].resp.err = Unauthorized

\* C9: a failed retry and a failed re-authentication reach the caller as they are,
\* with no further attempt; a first failure other than 401 reaches the caller
\* with no re-authentication, no retry and no change to the stored credential.
C9_FailurePropagates ==
    [][\A c \in 1..MaxCalls :
          /\ (Leaves(c) /\ ~calls[c].resp.ok /\ ~calls[c].retry) =>
                /\ FailureReaches(c, calls[c].resp.err)
                /\ NoFurtherAttempt(c)
                /\ issued' = issued /\ authToken' = authToken
          /\ (calls[c].st = "login" /\ calls'[c].st # "login" /\ issued' = issued) =>
                /\ FailureReaches(c, LoginFailed)
                /\ NoFurtherAttempt(c)
                /\ authToken' = authToken
          /\ (Leaves(c) /\ ~calls[c].resp.ok /\ calls[c].retry
                /\ calls[c].resp.err = Unauthorized /\ mockLineId = "") =>
                /\ FailureReaches(c, MockIdEmpty)
                /\ NoFurtherAttempt(c)
                /\ issued' = issued /\ authToken' = authToken
          /\ (Leaves(c) /\ ~calls[c].resp.ok /\ calls[c].resp.err # Unauthorized) =>
                /\ FailureReaches(c, calls[c].resp.err)
                /\ NoFurtherAttempt(c)
                /\ issued' = issued /\ authToken' = authToken]_vars

\* The re-authentication of a game-room handler's request has failed: the handler
\* shows that failure and re-syncs.
C9_Witness ==
    /\ error = LoginFailed
    /\ \E i \in 1..MaxInvocations : inv[i].stage = "resync"

\* C10: when an action request succeeds the stored MatchSummary becomes the one the
\* action returned and the snapshot is re-fetched with busy still set; when the
\* re-fetch succeeds its snapshot is stored and only then busy is released; the
\* error slot stays empty all along.
C10_SuccessPath ==
    [][/\ \A i \in 1..MaxInvocations :
             inv[i].stage \in {"action", "refetch"} => busy /\ error = Null
       /\ \A c \in 1..MaxCalls :
             Leaves(c) /\ calls[c].resp.ok =>
                LET aw == calls[c].await
                    r == calls[c].resp
                IN  /\ aw.role = "action" =>
                          /\ currentMatch' = r.match
                          /\ currentGameState' = currentGameState
                          /\ busy' /\ error' = Null
                          /\ inv'[aw.inv].stage = "refetch"
                          /\ \E d \in 1..MaxCalls :
                                /\ calls'[d].st = "sent" /\ calls'[d].fn = "GET_STATE"
                                /\ calls'[d].await = [inv |-> aw.inv, role |-> "refetch"]
                    /\ aw.role = "refetch" =>
                          /\ currentGameState' = r.state
                          /\ currentMatch' = currentMatch
                          /\ ~busy' /\ error' = Null
                          /\ inv'[aw.inv].stage = "idle"]_vars

\* End-turn has succeeded: the stored match already names the other player as the
\* turn owner, the re-fetch is outstanding, the snapshot is still the old one and
\* busy is still set.
C10_Witness ==
    /\ busy /\ error = Null
    /\ \E i \in 1..MaxInvocations : inv[i].stage = "refetch" /\ inv[i].kind = "END_TURN"
    /\ currentMatch.currentTurnPlayerId # currentUserId
    /\ currentGameState.currentTurnPlayerId = currentUserId

\* ------------------------------------------------------------------ failure path
\* The guarded call in slot c, the action request of a game-room handler, ends in
\* this step with the server's refusal.
Rejected(c) ==
    /\ Leaves(c) /\ ~calls[c].resp.ok /\ calls[c].resp.err = Conflict
    /\ calls[c].await.role = "action"
    /\ inv[calls[c].await.inv].kind \in GameKinds

\* Both requests of the re-sync of invocation i are outstanding after this step.
ResyncIssued(i) ==
    \E m, g \in 1..MaxCalls :
        /\ calls'[m].st = "sent" /\ calls'[m].fn = "GET_MATCH"
        /\ calls'[m].await = [inv |-> i, role |-> "resync-match"]
        /\ calls'[g].st = "sent" /\ calls'[g].fn = "GET_STATE"
        /\ calls'[g].await = [inv |-> i, role |-> "resync-state"]

\* C11: when the server refuses the action request of a game-room handler, of
\* whatever kind and whatever the store holds, the error slot gets the message of
\* the response, the re-sync sends both GET match and GET state, and busy stays set
\* until the re-sync has ended.
C11_RejectedResyncs ==
    [][/\ \A c \in 1..MaxCalls :
             Rejected(c) =>
                /\ error' = getApiErrorMessage(calls[c].resp.err)
                /\ error' = Conflict
                /\ busy'
                /\ inv'[calls[c].await.inv].stage = "resync"
                /\ ResyncIssued(calls[c].await.inv)
                /\ currentMatch' = currentMatch /\ currentGameState' = currentGameState
       /\ \A i \in 1..MaxInvocations :
             inv[i].stage = "resync" =>
                /\ busy
                /\ ~busy' =>
                      \A c \in 1..MaxCalls :
                         calls'[c].await.inv = i => calls'[c].await.role = "action"]_vars

\* The server has refused a draw sent on a stale view of the turn; the message is
\* shown and both requests of the re-sync are on their way with busy still set.
C11_Witness ==
    /\ busy /\ error = Conflict
    /\ \E i \in 1..MaxInvocations : inv[i].stage = "resync" /\ inv[i].kind \in OrdinaryKinds
    /\ \E m, g \in 1..MaxCalls :
          /\ calls[m].st = "sent" /\ calls[m].await.role = "resync-match"
          /\ calls[g].st = "sent" /\ calls[g].await.role = "resync-state"

\* ------------------------------------------------------------------ leaving a match
\* Call c is a poll, live or cancelled.
IsPoll(c) == calls[c].st # "free" /\ calls[c].await.role \in PollRoles \cup {"cancelled"}

C13_RouteChangeTearsDown ==
    [][(route = "game" /\ route' # "game" /\ currentMatch # NoMatchSummary) =>
          socket' = Null /\ timer' = NoTimer]_vars

\* C14 as stated: a message that is not a well-formed envelope (text that does not
\* parse, or a match / gameState field that is no MatchSummary / GameSnapshot)
\* leaves the stored MatchSummary and GameSnapshot as they were.
C14_MalformedDropped ==
    [][\A env \in Envelopes :
          ~WellFormed(env) /\ onmessage(env) =>
             currentMatch' = currentMatch /\ currentGameState' = currentGameState]_vars

\* What the server answers about match id: its MatchSummary and GameSnapshot.
ServerView(id) ==
    IF id = srv.id THEN [match |-> MatchSummary(srv), state |-> GameSnapshot(srv)]
    ELSE srv.old

\* The store holds what the server answers about the stored match (a match that
\* has not started has no snapshot to compare).
Synced ==
    /\ currentMatch = ServerView(currentMatch.matchId).match
    /\ currentMatch.status \in {"STARTED", "FINISHED"} =>
          currentGameState = ServerView(currentMatch.matchId).state

\* C15 as stated: with every push lost, if the server's state stops changing and
\* the polls keep being answered, the stored MatchSummary and GameSnapshot
\* eventually equal the server's and stay equal.
C15_PollsConverge ==
    (<>[][srv' = srv]_vars) => <>[](currentMatch # NoMatchSummary => Synced)

\* ------------------------------------------------------------------ writing the store twice
\* The answer call c was given carries nothing but what the store holds already,
\* and so does the answer Promise.all keeps for it, if any.
CarriesStored(r) ==
    /\ r.ok
    /\ r.match # NoMatchSummary => r.match = currentMatch
    /\ r.state # NoGameState => r.state = currentGameState
AlreadyApplied(c) ==
    /\ calls[c].st = "answered" /\ calls[c].await.role \notin {Null, "cancelled"}
    /\ CarriesStored(calls[c].resp)
    /\ \A d \in 1..MaxCalls :
          calls[d].st = "held" /\ calls[d].await.inv = calls[c].await.inv
          /\ (calls[d].await.role \in PollRoles <=> calls[c].await.role \in PollRoles)
          => CarriesStored(calls[d].resp)

\* The store and what GameRoomScreen derives from it are the same after the step
\* (the gate and the block reason also read busy, which a handler's last write
\* releases).
SameStoreAndDerived ==
    /\ currentMatch' = currentMatch /\ currentGameState' = currentGameState
    /\ hasUsedTurnDraw' = hasUsedTurnDraw /\ hasUsedTurnCheer' = hasUsedTurnCheer
    /\ busy' = busy =>
          /\ canSubmitAction' = canSubmitAction
          /\ resolveGlobalActionBlockReason' = resolveGlobalActionBlockReason

\* C16: a writer (push handler, poll, a handler's post-action writes) that is given
\* the MatchSummary / GameSnapshot the store already holds from applying them once
\* leaves the store, the gate, the block reason and the turn-usage flags as they
\* are.
C16_SecondWriteChangesNothing ==
    [][/\ \A withState \in BOOLEAN :
             /\ PushMessage(withState)
             /\ currentMatch = MatchSummary(srv)
             /\ withState => currentGameState = GameSnapshot(srv)
             => SameStoreAndDerived
       /\ \A c \in 1..MaxCalls :
             Receive(c) /\ AlreadyApplied(c) => SameStoreAndDerived]_vars

\* The store holds the server's match and snapshot with the local player's draw of
\* the turn in it, so that a push repeats them, while a poll and a handler's
\* re-fetch have been answered with the same values.
C16_Witness ==
    /\ currentMatch = MatchSummary(srv) /\ currentGameState = GameSnapshot(srv)
    /\ hasUsedTurnDraw
    /\ \E c, d \in 1..MaxCalls :
          /\ calls[c].await.role = "pollgame-match" /\ calls[c].st = "held"
          /\ calls[d].await.role = "pollgame-state" /\ AlreadyApplied(d)
    /\ \E c \in 1..MaxCalls : calls[c].await.role = "refetch" /\ AlreadyApplied(c)

\* ------------------------------------------------------------------ turn-usage flags
\* The snapshot's log has an entry of the local player, of the snapshot's turn, of
\* the given kind.
LoggedThisTurn(kind) ==
    \E a \in currentGameState.recentActions :
       /\ a.userId = currentUserId
       /\ a.turnNumber = currentGameState.turnNumber
       /\ a.actionType = kind

\* C17: hasUsedTurnDraw (hasUsedTurnCheer) is true exactly when the snapshot's log
\* has a DRAW_TURN (TURN_CHEER) entry of the local player with the snapshot's turn
\* number; both are false once the snapshot's turn number has advanced with no new
\* entry in the log.
C17_TurnUsageFromLog ==
    /\ [](/\ hasUsedTurnDraw <=> LoggedThisTurn("DRAW_TURN")
          /\ hasUsedTurnCheer <=> LoggedThisTurn("TURN_CHEER"))
    /\ [][/\ currentGameState'.turnNumber > currentGameState.turnNumber
          /\ currentGameState'.recentActions = currentGameState.recentActions
          => ~hasUsedTurnDraw' /\ ~hasUsedTurnCheer']_vars

\* The snapshot is of the turn after the one in which the local player drew: the
\* entry is still in the log and the flag is down.
C17_Witness ==
    /\ currentGameState.turnNumber = 2
    /\ [userId |-> currentUserId, actionType |-> "DRAW_TURN", turnNumber |-> 1]
          \in currentGameState.recentActions
    /\ ~hasUsedTurnDraw

\* ------------------------------------------------------------------ one draw, one send-cheer per turn
\* C18 as stated: once the local player's draw (send-cheer) of the server's current
\* turn has succeeded, no later step dispatches a draw (send-cheer) request in that
\* turn, whatever pushes and poll answers arrive in between.
C18_OncePerTurn ==
    [][\A c \in 1..MaxCalls, kind \in {"DRAW_TURN", "TURN_CHEER"} :
          Dispatched(c) /\ calls'[c].fn = kind => ~HasLogged(srv, LocalPlayer, kind)]_vars

\* ------------------------------------------------------------------ ending the turn
\* Send-cheer is eligible: the cheer deck is not empty and the local player has a
\* unit on the field.
CheerEligible == myState.cheerDeck > 0 /\ myState.center + myState.collab + myState.back > 0
DrawMissing == ~LoggedThisTurn("DRAW_TURN")
CheerMissing == CheerEligible /\ ~LoggedThisTurn("TURN_CHEER")

\* C19: an end-turn request leaves only when the draw of the turn is used and, if
\* send-cheer is eligible, the send-cheer too; a click on end-turn with one of
\* them missing sends nothing and shows the notice that lists exactly the missing
\* ones.
C19_EndTurnNeedsMandatoryActions ==
    [][/\ Dispatches({"END_TURN"}) => ~DrawMissing /\ ~CheerMissing
       /\ handleEndTurnClick /\ (DrawMissing \/ CheerMissing) =>
             /\ calls' = calls
             /\ screen'.infoModalMessage =
                   CASE DrawMissing /\ ~CheerMissing -> "turn-incomplete: draw"
                     [] ~DrawMissing /\ CheerMissing -> "turn-incomplete: cheer"
                     [] DrawMissing /\ CheerMissing -> "turn-incomplete: draw, cheer"]_vars

\* The end-turn button was clicked after the draw, with send-cheer eligible and
\* not used: the notice lists the send-cheer alone and no request is out.
C19_Witness ==
    /\ screen.infoModalMessage = "turn-incomplete: cheer"
    /\ ~DrawMissing /\ CheerMissing
    /\ \A c \in 1..MaxCalls : calls[c].fn # "END_TURN"

\* ------------------------------------------------------------------ BLOOM targets
\* The rank of a level: DEBUT, FIRST, SECOND in this order, BUZZ at rank `buzz`,
\* none for SPOT and for a missing level.
TierRank(levelType, buzz) ==
    CASE levelType = "DEBUT" -> 0
      [] levelType = "FIRST" -> 1
      [] levelType = "SECOND" -> 2
      [] levelType = "BUZZ" -> buzz
      [] OTHER -> 0 - 2

\* The units resolveBloomTargetOptions marks selectable for the BLOOM card in hand.
EligibleBloomTargets ==
    {target \in myState.units : resolveBloomTargetOptions(myState.bloomCard)[target] = Null}

\* The own units with the name of the BLOOM card, one rank below it, not SPOT.
SameNameOneBelow(buzz) ==
    {target \in myState.units :
        /\ trim(target.name) = trim(myState.bloomCard.name)
        /\ target.levelType # "SPOT"
        /\ TierRank(target.levelType, buzz) >= 0
        /\ TierRank(target.levelType, buzz) + 1 = TierRank(myState.bloomCard.levelType, buzz)}

\* C20 as stated: for a BLOOM card of a level the hand action accepts (FIRST, SECOND
\* or BUZZ) the selectable targets are exactly the own units of the same name, one
\* rank below the card and not SPOT, whichever rank above DEBUT a BUZZ card has.
C20_BloomTargets ==
    resolveDefaultHandAction(myState.bloomCard) = "BLOOM" =>
       \E buzz \in 1..3 : EligibleBloomTargets = SameNameOneBelow(buzz)

\* ------------------------------------------------------------------ moving a unit to the front row
\* C21 as stated: a move-stage-holomem request leaves only while the center or the
\* collab slot of the local player is empty; a click on a back-row unit with both
\* occupied gives a draft that is not movable and carries the reason, changes
\* nothing else, and no request leaves from such a draft.
C21_MoveNeedsFreeSlot ==
    [][/\ Dispatches({"MOVE_STAGE_HOLOMEM"}) =>
             /\ myCenterHolomems = 0 \/ myCollabHolomems = 0
             /\ screen.pendingStageMove.movable
       /\ handleMyZoneCardClick /\ resolveGlobalActionBlockReason = Null
          /\ myCenterHolomems > 0 /\ myCollabHolomems > 0 =>
             /\ ~screen'.pendingStageMove.movable
             /\ screen'.pendingStageMove.blockedReason = StageOccupied
             /\ UNCHANGED <<srv, currentMatch, currentGameState, calls, inv, busy, error>>]_vars

\* ---- C22: a resolve-decision request leaves only with a number n of selected
\* candidates such that max(minSelect, 1) <= n <= maxSelect of the head decision (or
\* of the head SEND_CHEER interaction); a selection never grows beyond maxSelect;
\* and for an interaction that only needs acknowledging (TURN_START) the confirm
\* button is enabled exactly when no request is in flight.
SelectionBounds(item, n) ==
    /\ n >= (IF item.minSelect > 1 THEN item.minSelect ELSE 1)
    /\ n <= item.maxSelect

C22_SelectionWithinBounds ==
    [][/\ \A c \in 1..MaxCalls :
            Dispatched(c) /\ calls'[c].fn = "RESOLVE_DECISION" =>
               \/ /\ activePendingDecision # NoDecision
                  /\ calls'[c].arg.decisionId = activePendingDecision.decisionId
                  /\ SelectionBounds(activePendingDecision, calls'[c].arg.selected)
               \/ /\ activePendingInteraction # NoInteraction
                  /\ calls'[c].arg.decisionId = activePendingInteraction.interactionId
                  /\ activePendingInteraction.interactionType = "SEND_CHEER" =>
                        SelectionBounds(activePendingInteraction, calls'[c].arg.selected)
       /\ Cardinality(screen'.selectedDecisionCardInstanceIds)
             > Cardinality(screen.selectedDecisionCardInstanceIds) =>
             Cardinality(screen'.selectedDecisionCardInstanceIds)
                <= activePendingDecision.maxSelect
       /\ Cardinality(screen'.selectedInteractionCardInstanceIds)
             > Cardinality(screen.selectedInteractionCardInstanceIds) =>
             Cardinality(screen'.selectedInteractionCardInstanceIds)
                <= activePendingInteraction.maxSelect
       /\ activePendingInteraction.interactionType = "TURN_START" =>
             (canConfirmInteraction <=> ~busy)]_vars

\* A resolve-decision request with two selected candidates is in flight for a head
\* decision that asks for one or two.
C22_Witness ==
    \E c \in 1..MaxCalls :
       /\ calls[c].st = "sent" /\ calls[c].fn = "RESOLVE_DECISION"
       /\ calls[c].await.role = "action"
       /\ calls[c].arg.selected = 2
       /\ activePendingDecision.minSelect = 1 /\ activePendingDecision.maxSelect = 2
       /\ calls[c].arg.decisionId = activePendingDecision.decisionId

\* ------------------------------------------------------------------ the two pending queues
\* The game room in any state of the gate (a decision and an interaction may be
\* pending together); the user works the decision panel and the interaction modal.
NextPending ==
    \/ Wire
    \/ \E card \in Candidates : toggleDecisionSelection(card)
    \/ resolveDecisionClick
    \/ \E card \in Candidates : toggleInteractionSelection(card)
    \/ selectInteractionPlacement
    \/ confirmInteractionClick
    \/ \E zoneId \in {DeckZone, CheerDeckZone} : handleMyZoneClick(zoneId)
    \/ dismissInfoModal

SpecPending == InitBlockReason /\ [][NextPending]_vars

\* ---- C23: with a pending decision and a pending interaction in the same snapshot
\* a protocol error is shown, neither head can be resolved and no resolve-decision
\* request leaves.
C23_BothQueuesIsProtocolError ==
    [][pendingDecisions # <<>> /\ pendingInteractions # <<>> =>
          /\ error # Null \/ screen.infoModalMessage # Null
          /\ ~canResolveDecision
          /\ ~canConfirmInteraction
          /\ ~Dispatches({"RESOLVE_DECISION"})]_vars

\* ------------------------------------------------------------------ the first turn
\* The game room right after the host has started the match: turn 1 belongs to the
\* host, nothing is pending, no handler is under way. The local player is the host
\* or the guest; the other player stays idle.
InitScenario ==
    /\ issued = 1
    /\ expired = 0
    /\ authToken = [gen |-> 1, user |-> LocalPlayer]
    /\ currentUserId = LocalPlayer
    /\ authStatus = "Signed in"
    /\ mockLineId = "me"
    /\ error = Null
    /\ route = "game"
    /\ screen = InitialScreen
    /\ \E host \in Players, board \in Boards :
          srv = [Playing(host, <<>>, <<>>, board) EXCEPT !.host = host]
    /\ currentMatch = MatchSummary(srv)
    /\ socket = SocketOf(currentMatch)
    /\ wsStatus = "Connected"
    /\ wsEvents = {}
    /\ timer = TimerOf(currentMatch)
    /\ currentGameState = GameSnapshot(srv)
    /\ busy = FALSE
    /\ inv = [i \in 1..MaxInvocations |-> IdleInvocation]
    /\ calls = [c \in 1..MaxCalls |-> FreeCall]

NextScenario ==
    \/ Wire
    \/ \E withState \in BOOLEAN : PushMessage(withState)
    \/ \E zoneId \in {DeckZone, CheerDeckZone} : handleMyZoneClick(zoneId)
    \/ handleEndTurnClick
    \/ dismissInfoModal

SpecScenario == InitScenario /\ [][NextScenario]_vars

\* ---- C24: from turn 1 of a started match, owned by the host: a click on the deck
\* by the player who does not own the turn shows not-your-turn and sends nothing;
\* when the owner's draw is completed hasUsedTurnDraw holds; the owner's end-turn
\* with the send-cheer possible and not used shows the notice listing the
\* send-cheer and sends nothing; with draw and send-cheer used it sends end-turn;
\* and when end-turn succeeds the stored match, then the stored snapshot, name the
\* other player as turn owner at a turn number above 1.
C24_FirstTurnScenario ==
    [][/\ handleMyZoneClick(DeckZone) /\ ~busy /\ ~isMyTurn =>
             screen'.infoModalMessage = BlockNotYourTurn /\ calls' = calls
       /\ handleEndTurnClick /\ hasUsedTurnDraw /\ canPerformTurnCheer /\ ~hasUsedTurnCheer =>
             screen'.infoModalMessage = TurnIncomplete(<<"cheer">>) /\ calls' = calls
       /\ handleEndTurnClick /\ hasUsedTurnDraw /\ hasUsedTurnCheer =>
             Dispatches({"END_TURN"})
       /\ \A c \in 1..MaxCalls :
             Leaves(c) /\ calls[c].resp.ok =>
                LET aw == calls[c].await
                IN  /\ aw.role = "refetch" /\ inv[aw.inv].kind = "DRAW_TURN" =>
                          hasUsedTurnDraw'
                    /\ aw.role = "action" /\ calls[c].fn = "END_TURN" =>
                          /\ currentMatch'.currentTurnPlayerId = Other(LocalPlayer)
                          /\ currentMatch'.turnNumber > 1
                    /\ aw.role = "refetch" /\ inv[aw.inv].kind = "END_TURN" =>
                          /\ currentGameState'.currentTurnPlayerId = Other(LocalPlayer)
                          /\ currentGameState'.turnNumber > 1]_vars

\* The host has drawn, sent cheer and ended turn 1: the store names the guest as
\* the owner of turn 2 and no handler is under way.
C24_Witness ==
    /\ srv.host = LocalPlayer
    /\ ~busy
    /\ currentMatch.currentTurnPlayerId = Other(LocalPlayer)
    /\ currentGameState.currentTurnPlayerId = Other(LocalPlayer)
    /\ currentGameState.turnNumber = 2
    /\ \E a \in recentActions : a.actionType = "DRAW_TURN" /\ a.userId = LocalPlayer /\ a.turnNumber = 1
    /\ \E a \in recentActions : a.actionType = "TURN_CHEER" /\ a.userId = LocalPlayer /\ a.turnNumber = 1

\* The guest has clicked the deck during the host's first turn: the notice says
\* not-your-turn and no request is out.
C24_WitnessRefused ==
    /\ srv.host = Other(LocalPlayer) /\ srv.turn = 1
    /\ screen.infoModalMessage = BlockNotYourTurn
    /\ \A c \in 1..MaxCalls : calls[c].st = "free"

\* ---- C25: a request of a hand action or of a stage move leaves only if, in the
\* snapshot stored at that moment, the gate is open and the action is still legal
\* for the local player (room in BACK for play-to-stage, a BLOOM target, a unit to
\* attach the cheer to, CENTER or COLLAB free for the move), whatever the snapshot
\* was when the draft was opened.
C25_LegalityRecheckedAtDispatch ==
    [][/\ \A kind \in HandActionKinds :
             Dispatches({kind}) => HandActionSelectable(kind)
       /\ Dispatches({"MOVE_STAGE_HOLOMEM"}) =>
             /\ resolveGlobalActionBlockReason = Null
             /\ myBackHolomems > 0
             /\ myCenterHolomems = 0 \/ myCollabHolomems = 0]_vars

\* ---- C30: a play-to-stage request leaves only for a hand card whose default
\* action is PLAY_TO_STAGE (a DEBUT or SPOT member) and only while BACK holds fewer
\* than BackMax units in the stored snapshot; a click on such a card with BACK full
\* opens no draft and sends nothing.
C30_PlayToStageNeedsRoom ==
    [][/\ Dispatches({"PLAY_TO_STAGE"}) =>
             /\ "PLAY_TO_STAGE" \in myState.hand
             /\ myBackHolomems < BackMax
       /\ openHandAction("PLAY_TO_STAGE") /\ resolveGlobalActionBlockReason = Null
          /\ myBackHolomems >= BackMax =>
             /\ calls' = calls
             /\ screen'.pendingHandAction = NoHandActionDraft
             /\ screen'.infoModalMessage = NotSelectable]_vars

\* ------------------------------------------------------------------ a turn, with the timers and the network going on
\* SpecTurn with what setInterval and the network give: pollGameState keeps
\* ticking, every request sent is served, every answer is received, and an open
\* notice is dismissed.
FairTurn ==
    /\ WF_vars(pollGameState)
    /\ WF_vars(dismissInfoModal)
    /\ \A c \in 1..MaxCalls : WF_vars(Serve(c)) /\ WF_vars(Receive(c))

SpecTurnFair == InitTurn /\ [][NextTurn]_vars /\ FairTurn

\* The Promise.all of a pollGameState resolves in this step through call c: the
\* other request has answered before and the poll was not cancelled.
PollGameResolves(c) ==
    /\ Leaves(c) /\ calls[c].resp.ok
    /\ calls[c].await.role \in {"pollgame-match", "pollgame-state"}
    /\ calls[PollSibling(c)].st = "held"

\* What the resolving pollGameState read from the server, whenever that was.
PollGameRead(c) ==
    LET r == calls[c].resp
        o == calls[PollSibling(c)].resp
    IN  [match |-> IF calls[c].await.role = "pollgame-match" THEN r.match ELSE o.match,
         state |-> IF calls[c].await.role = "pollgame-state" THEN r.state ELSE o.state]

C27_HungCallHoldsGuard ==
    [][/\ busy /\ ~busy' =>
             \E c \in 1..MaxCalls :
                /\ Leaves(c)
                /\ calls[c].await.role \in {"action", "refetch", "resync-match", "resync-state"}
       /\ busy => ~Dispatches(GameKinds)
       /\ \A zoneId \in {DeckZone, CheerDeckZone} :
             handleMyZoneClick(zoneId) /\ busy =>
                screen'.infoModalMessage = BlockBusy /\ calls' = calls
       /\ \A withState \in BOOLEAN :
             PushMessage(withState) =>
                /\ currentMatch' = MatchSummary(srv)
                /\ withState => currentGameState' = GameSnapshot(srv)
                /\ busy' = busy
       /\ \A c \in 1..MaxCalls :
             PollGameResolves(c) =>
                /\ currentGameState' = PollGameRead(c).state
                /\ busy' = busy]_vars

\* The answer to the end-turn request has not come back: busy is set, a click has
\* been refused as busy, and the store already shows the turn that request
\* brought about, which only a push or a poll can have written.
C27_Witness ==
    /\ busy
    /\ screen.infoModalMessage = BlockBusy
    /\ \E c \in 1..MaxCalls :
          /\ calls[c].st = "answered" /\ calls[c].fn = "END_TURN"
          /\ calls[c].await.role = "action" /\ calls[c].resp.ok
          /\ currentGameState.turnNumber = calls[c].resp.match.turnNumber
          /\ currentGameState.currentTurnPlayerId = Other(LocalPlayer)

\* The polls of the running interval that are still awaited, by loop.
LiveSummaryPolls ==
    {c \in 1..MaxCalls : calls[c].st # "free" /\ calls[c].await.role \in {"poll-match", "poll-state"}}
LiveGamePolls ==
    {c \in 1..MaxCalls :
        calls[c].st # "free" /\ calls[c].await.role \in {"pollgame-match", "pollgame-state"}}

\* ---- C28: with a stored match one interval runs, set for the stored id and
\* status; pollMatchStatus ticks only while the stored status is not STARTED and
\* pollGameState only while it is; the polls still awaited are those of the loop
\* the stored status selects, never of both; and the pollMatchStatus that reads
\* STARTED sends the snapshot request in that same step.
C28_OnePollingLoop ==
    [][/\ currentMatch # NoMatchSummary => timer = TimerOf(currentMatch) /\ timer # NoTimer
       /\ currentMatch = NoMatchSummary => timer = NoTimer
       /\ pollMatchStatus => currentMatch # NoMatchSummary /\ currentMatch.status # "STARTED"
       /\ pollGameState => currentMatch.status = "STARTED"
       /\ LiveSummaryPolls = {} \/ LiveGamePolls = {}
       /\ \A c \in LiveSummaryPolls :
             currentMatch.status # "STARTED" /\ calls[c].arg.matchId = currentMatch.matchId
       /\ \A c \in LiveGamePolls :
             currentMatch.status = "STARTED" /\ calls[c].arg.matchId = currentMatch.matchId
       /\ \A c \in 1..MaxCalls :
             /\ Leaves(c) /\ calls[c].await.role = "poll-match"
             /\ calls[c].resp.ok /\ calls[c].resp.match.status = "STARTED"
             => \E d \in 1..MaxCalls :
                   /\ calls[d].st = "free" \/ d = c
                   /\ calls'[d].st = "sent" /\ calls'[d].fn = "GET_STATE"
                   /\ calls'[d].arg.matchId = calls[c].resp.match.matchId]_vars

\* pollMatchStatus has read STARTED and sent its snapshot request, which is still
\* out, and the pollGameState loop has taken over: its two requests are out too.
C28_Witness ==
    /\ currentMatch.status = "STARTED"
    /\ timer = TimerOf(currentMatch)
    /\ \E d \in 1..MaxCalls :
          calls[d].st # "free" /\ calls[d].fn = "GET_STATE" /\ calls[d].await.role = "cancelled"
    /\ Cardinality(LiveGamePolls) = 2

\* ---- C29: a click on a BLOOM card none of the own units is a target of sends
\* nothing and opens no draft; the reasons shown hold the cause of every unit, each
\* being a name mismatch, a rank mismatch, a tier that cannot be bloomed or missing
\* level information; and a SPOT unit whose name and level the catalog knows is
\* turned down as a tier that cannot be bloomed (the BLOOM card being one with a
\* usable level).
C29_BloomRefusalReasons ==
    [][openHandAction("BLOOM") /\ resolveGlobalActionBlockReason = Null
       /\ EligibleBloomTargets = {} =>
          /\ calls' = calls
          /\ screen'.pendingHandAction = NoHandActionDraft
          /\ screen'.infoModalMessage = NotSelectable
          /\ bloomReasonSummary \subseteq
                {NameDiffers, RankDiffers, TargetSpot, TargetNoLevel, BloomNoLevel}
          /\ \A target \in myState.units :
                /\ resolveBloomTargetOptions(myState.bloomCard)[target] \in bloomReasonSummary
                /\ /\ target.levelType = "SPOT" /\ trim(target.name) # ""
                   /\ trim(myState.bloomCard.name) # ""
                   /\ levelRank(myState.bloomCard.levelType) > 0
                   => resolveBloomTargetOptions(myState.bloomCard)[target] = TargetSpot]_vars

\* ---- C31: the gate predicate and the block reason agree: canSubmitAction holds
\* exactly when resolveGlobalActionBlockReason gives no reason.
C31_GateAgreesWithReason ==
    canSubmitAction <=> resolveGlobalActionBlockReason = Null

\* A click has been refused because a decision is pending, nothing else standing
\* in the way: the reason is the pending decision and canSubmitAction is false.
C31_Witness ==
    /\ screen.infoModalMessage = BlockDecisionPending
    /\ resolveGlobalActionBlockReason = BlockDecisionPending
    /\ ~canSubmitAction
    /\ ~busy /\ isMyTurn /\ currentGameState.status = "STARTED"

\* A hand-action draft is open with the gate open.
C31_WitnessOpen ==
    /\ canSubmitAction
    /\ screen.pendingHandAction # NoHandActionDraft

\* ------------------------------------------------------------------ a handler to its end
\* The first turn of a started match while requests fail on the way: the player
\* clicks the deck, and the draw handler runs through its try / catch / finally.
NextFinish ==
    \/ Wire
    \/ \E c \in 1..MaxCalls : NetFail(c)
    \/ handleMyZoneClick(DeckZone)
    \/ dismissInfoModal

\* Every remote call returns: a request sent is answered by the server or fails on
\* the way and an answer is received, however often the player opens a notice in
\* between (the network does not wait for the notice), and an open notice is
\* dismissed.
FairFinish ==
    /\ WF_vars(dismissInfoModal)
    /\ \A c \in 1..MaxCalls :
          /\ SF_vars(Serve(c) \/ NetFail(c))
          /\ SF_vars(Receive(c))

SpecFinish == InitScenario /\ [][NextFinish]_vars /\ FairFinish

\* The calls invocation i still awaits.
Awaited(cs, i) ==
    {c \in 1..MaxCalls :
        /\ cs[c].st # "free" /\ cs[c].await.inv = i
        /\ cs[c].await.role \in {"action", "refetch", "resync-match", "resync-state"}}

\* ---- C32: a handler that has set busy clears it when its remote calls have
\* returned, on every path: in the step after which it awaits no call any more it
\* is over and busy is false; and, every call returning, busy never stays set.
C32_BusyClearedOnEveryPath ==
    /\ [][\A i \in 1..MaxInvocations :
             inv[i].stage # "idle" /\ Awaited(calls', i) = {} =>
                inv'[i].stage = "idle" /\ ~busy']_vars
    /\ [](\A i \in 1..MaxInvocations : inv[i].stage # "idle" => busy /\ Awaited(calls, i) # {})
    /\ busy ~> ~busy


\* The forced re-sync of a failed draw has failed too, its other request still
\* being out with nobody awaiting it: the handler is over, busy is false and the
\* message of the failed action stays.
C32_Witness ==
    /\ ~busy
    /\ \A i \in 1..MaxInvocations : inv[i].stage = "idle"
    /\ error # Null
    /\ \E c \in 1..MaxCalls : calls[c].st # "free" /\ calls[c].await = NoAwait

\* ---- C33: the error message changes to a message only in a step in which the
\* action request of a handler has failed; when the action has succeeded and its
\* re-fetch of the snapshot fails, the match the action returned stays stored and
\* no message is set.
C33_MessageOnlyForFailedAction ==
    [][/\ error' # error /\ error' # Null =>
             \E c \in 1..MaxCalls :
                Leaves(c) /\ ~calls[c].resp.ok /\ calls[c].await.role = "action"
       /\ \A c \in 1..MaxCalls :
             Leaves(c) /\ ~calls[c].resp.ok /\ calls[c].await.role = "refetch" =>
                /\ currentMatch' = currentMatch
                /\ error' = Null]_vars

\* ------------------------------------------------------------------ one pending item and a willing player
\* What the server may put at the head of a queue (api: PendingDecision,
\* PendingInteraction): any minSelect <= maxSelect up to MaxSelect, any set of
\* candidates, and for an interaction any `interactionType` string, one the screen
\* does not know included.  Only SEND_CHEER asks for a selection (the source's
\* confirm handler sends none for the other kinds).
MaxSelect == 2
UnknownInteraction == "REVEAL_HAND"
OfferedInteractionTypes == InteractionTypes \cup {"DRAW_REVEAL", UnknownInteraction}
DecisionOffers ==
    {[decisionId |-> MaxIds, minSelect |-> lo, maxSelect |-> hi, candidates |-> cs] :
        lo \in 0..MaxSelect, hi \in 0..MaxSelect, cs \in SUBSET Candidates} \
    {d \in [decisionId : {MaxIds}, minSelect : 0..MaxSelect, maxSelect : 0..MaxSelect,
            candidates : SUBSET Candidates] : d.minSelect > d.maxSelect}
InteractionOffers ==
    UNION {{[interactionId |-> MaxIds + 1, interactionType |-> type,
             minSelect |-> d.minSelect, maxSelect |-> d.maxSelect, cards |-> d.candidates] :
                d \in {o \in DecisionOffers : type # "SEND_CHEER" => o.maxSelect = 0}} :
           type \in OfferedInteractionTypes}

\* The candidates / cards the panel of the head item renders.
offeredCandidates ==
    IF activePendingDecision = NoDecision THEN {} ELSE activePendingDecision.candidates
offeredCards ==
    IF activePendingInteraction = NoInteraction THEN {} ELSE activePendingInteraction.cards

\* The game room on the local player's turn with one item pending, a decision or
\* an interaction, and no handler under way.
InitResolve ==
    /\ issued = 1
    /\ expired = 0
    /\ authToken = [gen |-> 1, user |-> LocalPlayer]
    /\ currentUserId = LocalPlayer
    /\ authStatus = "Signed in"
    /\ mockLineId = "me"
    /\ error = Null
    /\ route = "game"
    /\ screen = InitialScreen
    /\ \E board \in {b \in Boards : b.back = 0} :
          \/ \E d \in DecisionOffers : srv = Playing(LocalPlayer, <<d>>, <<>>, board)
          \/ \E i \in InteractionOffers : srv = Playing(LocalPlayer, <<>>, <<i>>, board)
    /\ currentMatch = MatchSummary(srv)
    /\ socket = SocketOf(currentMatch)
    /\ wsStatus = "Connected"
    /\ wsEvents = {}
    /\ timer = TimerOf(currentMatch)
    /\ currentGameState = GameSnapshot(srv)
    /\ busy = FALSE
    /\ inv = [i \in 1..MaxInvocations |-> IdleInvocation]
    /\ calls = [c \in 1..MaxCalls |-> FreeCall]

\* A click on a candidate of the panel that leaves `selection` selected.
selectDecisionCandidates(selection) ==
    /\ \E card \in offeredCandidates : toggleDecisionSelection(card)
    /\ screen'.selectedDecisionCardInstanceIds = selection
selectInteractionCards(selection) ==
    /\ \E card \in offeredCards : toggleInteractionSelection(card)
    /\ screen'.selectedInteractionCardInstanceIds = selection

NextResolve ==
    \/ Wire
    \/ PushMessage(TRUE)
    \/ \E selection \in SUBSET Candidates : selectDecisionCandidates(selection)
    \/ resolveDecisionClick
    \/ \E selection \in SUBSET Candidates : selectInteractionCards(selection)
    \/ selectInteractionPlacement
    \/ confirmInteractionClick

\* The player tries every selection the panel allows and confirms whenever the
\* button is enabled; the network delivers and the pushes arrive.
FairResolve ==
    /\ \A selection \in SUBSET Candidates :
          /\ SF_vars(selectDecisionCandidates(selection))
          /\ SF_vars(selectInteractionCards(selection))
    /\ SF_vars(selectInteractionPlacement)
    /\ SF_vars(resolveDecisionClick)
    /\ SF_vars(confirmInteractionClick)
    /\ WF_vars(PushMessage(TRUE))
    /\ \A c \in 1..MaxCalls : WF_vars(Serve(c)) /\ WF_vars(Receive(c))

SpecResolve == InitResolve /\ [][NextResolve]_vars /\ FairResolve

\* ---- C34: whatever item is at the head of its queue, the player who tries every
\* selection and confirms when the button is enabled gets it resolved: the queues
\* of the stored snapshot end up empty, so the item does not block the gate for
\* ever.
C34_HeadItemGetsResolved ==
    <>(pendingDecisions = <<>> /\ pendingInteractions = <<>>)

\* ---- C35: whenever a match and a snapshot are both stored, they belong to the
\* same match, also while the client goes from one match to another.
C35_SnapshotOfStoredMatch ==
    currentMatch # NoMatchSummary /\ currentGameState # NoGameState =>
        currentGameState.matchId = currentMatch.matchId

\* ------------------------------------------------------------------ the identity under re-authentication
\* The signed-in player edits the mock id of the lobby (while no login is on its
\* way) and works the lobby while the tokens expire.
MockLineIds == {"me", OtherMockLineId, ""}
editMockLineId(v) ==
    /\ authStatus = "Signed in"
    /\ \A c \in 1..MaxCalls : calls[c].st # "login"
    /\ SetMockLineId(v)

NextIdentity ==
    \/ InitSignIn
    \/ \E v \in MockLineIds : editMockLineId(v)
    \/ ExpireToken
    \/ Wire
    \/ \E c \in 1..MaxCalls : LoginOk(c)
    \/ \E c \in 1..MaxCalls : LoginFail(c)
    \/ handleCreateRoom
    \/ handleToggleReady

SpecIdentity == Init /\ [][NextIdentity]_vars

\* ---- C36: the only explicit sign-in is the one of the page load, as the local
\* player; whatever is typed into the mock id afterwards, a re-authentication of the
\* session guard leaves the local player's id and the token's user as they were.
C36_ReauthKeepsIdentity ==
    authStatus = "Signed in" => currentUserId = LocalPlayer /\ authToken.user = LocalPlayer

\* ------------------------------------------------------------------ the channel-status indicator
\* An event of a socket reaches its handler: onopen, onerror, onclose set the
\* indicator, whichever socket the event belongs to.  The error of a socket comes
\* before its close.
SocketEvents == {SocketEvent(id, type) : id \in {"m1", "m2"}, type \in {"open", "error", "close"}}
onSocketEvent(ev) ==
    /\ ev \in wsEvents
    /\ ev.type = "close" => SocketEvent(ev.socket, "error") \notin wsEvents
    /\ wsEvents' = wsEvents \ {ev}
    /\ wsStatus' = CASE ev.type = "open" -> "Connected"
                     [] ev.type = "error" -> "Error"
                     [] OTHER -> "Disconnected"
    /\ UNCHANGED <<srvVars, sessionVars, mockLineId, currentMatch, currentGameState, busy, error,
                   route, calls, inv, socket, timer, screen>>

\* The signed-in player opens a room, then another one, while the sockets report.
NextChannel ==
    \/ InitSignIn
    \/ Wire
    \/ handleCreateRoom
    \/ handleToggleReady
    \/ \E ev \in SocketEvents : onSocketEvent(ev)

SpecChannel == Init /\ [][NextChannel]_vars

\* ---- C37: the indicator describes the socket of the stored match: once that
\* socket has reported its opening (and nothing else since), the indicator says
\* Connected, whatever a socket cancelled before reports afterwards.
C37_IndicatorOfCurrentSocket ==
    [][/\ socket # Null /\ socket' = socket
       /\ wsStatus = "Connected"
       /\ SocketEvent(socket, "open") \notin wsEvents
       => wsStatus' = "Connected"]_vars

\* ------------------------------------------------------------------ Sign In As This User
SignInAsFailed == "sign-in-as-failed"

\* handleSignInAs up to `await authenticate(mockLineId)`, which throws at once on an
\* empty id (catch: setError; finally: setBusy(false)).
handleSignInAs ==
    /\ UserFree
    /\ route = "lobby" /\ ~busy
    /\ FreeInvocations # {}
    /\ IF mockLineId = ""
       THEN Commit(currentMatch, currentGameState, SignInAsFailed, route, screen, FALSE,
                   calls, inv)
       ELSE Commit(currentMatch, currentGameState, Null, route, screen, TRUE, calls,
                   [inv EXCEPT ![FirstFreeInvocation] =
                       [kind |-> "SIGN_IN_AS", stage |-> "action"]])
    /\ UNCHANGED <<srvVars, sessionVars, mockLineId>>

\* authenticate has resolved: setCurrentMatch(null); setCurrentGameState(null);
\* navigate('/lobby'); the lists are loaded again; setBusy(false).
SignInAsOk(i) ==
    /\ NoticeClosed
    /\ inv[i].kind = "SIGN_IN_AS" /\ inv[i].stage = "action"
    /\ issued < MaxLogins
    /\ issued' = issued + 1
    /\ authToken' = NewToken
    /\ currentUserId' = NewToken.user
    /\ authStatus' = "Signed in"
    /\ Commit(NoMatchSummary, NoGameState, error, "lobby", screen, FALSE, calls,
              [inv EXCEPT ![i] = IdleInvocation])
    /\ UNCHANGED <<srv, expired, mockLineId>>

\* ... or has rejected.
SignInAsRejected(i) ==
    /\ NoticeClosed
    /\ inv[i].kind = "SIGN_IN_AS" /\ inv[i].stage = "action"
    /\ Commit(currentMatch, currentGameState, SignInAsFailed, route, screen, FALSE, calls,
              [inv EXCEPT ![i] = IdleInvocation])
    /\ UNCHANGED <<srvVars, sessionVars, mockLineId>>

\* ------------------------------------------------------------------ the subscriptions of the stored match
\* The player enters a room, opens another, signs in again; the other player joins,
\* gets ready and the match starts; the polls tick.
SubscriptionOpponentKinds == {"JOIN_ROOM", "TOGGLE_READY"}
NextSubscription ==
    \/ InitSignIn
    \/ Wire
    \/ PushMessage(TRUE)
    \/ \E fn \in SubscriptionOpponentKinds : Opponent(fn, TRUE)
    \/ pollMatchStatus
    \/ pollGameState
    \/ handleCreateRoom
    \/ handleToggleReady
    \/ handleStart
    \/ handleSignInAs
    \/ \E i \in 1..MaxInvocations : SignInAsOk(i)
    \/ \E i \in 1..MaxInvocations : SignInAsRejected(i)

SpecSubscription == Init /\ [][NextSubscription]_vars

\* The polls of the running interval: those whose `cancelled` flag is not set.
LivePolls == {c \in 1..MaxCalls : calls[c].st # "free" /\ calls[c].await.role \in PollRoles}

\* ---- C38: the one socket that has not been closed and the one interval that has
\* not been cleared are those of the stored match (the interval being the one of
\* its status); every socket of another match has been closed, every poll not
\* cancelled asks about the stored match; without a stored match there is no socket,
\* no interval and no poll that will write.
C38_OneSubscriptionOfStoredMatch ==
    /\ socket = currentMatch.matchId
    /\ timer.matchId = currentMatch.matchId /\ timer.status = currentMatch.status
    /\ \A ev \in wsEvents : ev.type = "open" => ev.socket = socket
    /\ \A c \in LivePolls : calls[c].arg.matchId = currentMatch.matchId
    /\ currentMatch = NoMatchSummary => socket = Null /\ timer = NoTimer /\ LivePolls = {}

\* The player has signed in again from the second room opened: no match is stored,
\* the sockets of both rooms have been closed (the close event of the second is
\* still to come), the interval is cleared and the poll that was out is cancelled.
C38_Witness ==
    /\ currentMatch = NoMatchSummary /\ socket = Null /\ timer = NoTimer
    /\ srv.id = NextMatchId
    /\ SocketEvent(srv.id, "close") \in wsEvents
    /\ \E c \in 1..MaxCalls : calls[c].st # "free" /\ calls[c].await.role = "cancelled"

\* ------------------------------------------------------------------ the paired fetches
\* The first turn of a started match while any request may fail on the way: the
\* player clicks the deck between two ticks of the in-game poll (a failure of the
\* draw leads to the forced re-sync) and the poll ticks.
clickDeckBetweenTicks == LivePolls = {} /\ handleMyZoneClick(DeckZone)

NextPaired ==
    \/ Wire
    \/ \E c \in 1..MaxCalls : NetFail(c)
    \/ pollGameState
    \/ clickDeckBetweenTicks
    \/ dismissInfoModal

SpecPaired == InitScenario /\ [][NextPaired]_vars

PairedRoles == {"resync-match", "resync-state", "pollgame-match", "pollgame-state"}
MatchRoles == {"resync-match", "pollgame-match"}
\* The request Promise.all holds beside call c.
HeldWith(c) ==
    {d \in 1..MaxCalls :
        /\ d # c /\ calls[d].st = "held"
        /\ calls[d].await.role \in PairedRoles /\ calls[d].await.inv = calls[c].await.inv}

\* ---- C39: when a request of the forced re-sync or of the in-game poll tick gives
\* its result, the stored MatchSummary and GameSnapshot change only if it succeeded
\* and the other request of the pair had succeeded before, and then both become the
\* two answers; a failure changes neither, nor the error slot, nor the notice; and
\* the answer of a request whose pair has failed is dropped.
C39_BothOrNeither ==
    [][\A c \in 1..MaxCalls :
          /\ Leaves(c) /\ calls[c].await.role \in PairedRoles /\ calls[c].resp.ok
             /\ HeldWith(c) = {} =>
                currentMatch' = currentMatch /\ currentGameState' = currentGameState
          /\ Leaves(c) /\ calls[c].await.role \in PairedRoles /\ calls[c].resp.ok =>
                \A d \in HeldWith(c) :
                   /\ currentMatch' = IF calls[c].await.role \in MatchRoles
                                      THEN calls[c].resp.match ELSE calls[d].resp.match
                   /\ currentGameState' = IF calls[c].await.role \in MatchRoles
                                          THEN calls[d].resp.state ELSE calls[c].resp.state
          /\ Leaves(c) /\ calls[c].await.role \in PairedRoles /\ ~calls[c].resp.ok =>
                /\ currentMatch' = currentMatch /\ currentGameState' = currentGameState
                /\ error' = error
                /\ screen'.infoModalMessage = screen.infoModalMessage
          /\ Leaves(c) /\ calls[c].await = NoAwait =>
                currentMatch' = currentMatch /\ currentGameState' = currentGameState]_vars

\* One request of a pair has failed and the other has brought a snapshot newer than
\* the stored one, which nobody awaits any more.
C39_Witness ==
    \E c \in 1..MaxCalls :
       /\ calls[c].st = "answered" /\ calls[c].await = NoAwait
       /\ calls[c].fn = "GET_STATE" /\ calls[c].resp.ok
       /\ calls[c].resp.state # currentGameState
====
